---- MODULE Spec2Model ----
(***************************************************************************)
(* monzo/slog: context parameter chain (params.go) and event construction  *)
(* (event.go).                                                             *)
(*                                                                         *)
(* Go maps are reference values, so maps live in a heap: heap[a] is the    *)
(* content of the map at address a.  An address is a pair <<kind, i>>     *)
(* that names the allocation it comes from; NilMap is the nil map.  A       *)
(* context is NilCtx (a nil context.Context), Background (a context that   *)
(* carries no param node) or the index i >= 1 of the paramNode that        *)
(* ctx.Value(contextKeyParamNode{}) finds first on it.                     *)
(***************************************************************************)
EXTENDS Integers, Sequences, FiniteSets, TLC

\* ---------------------------------------------------------------- bounds
MaxNodes == 3        \* WithParams calls per behaviour of Spec
BindNodes == 3       \* WithParams calls per behaviour of SpecBind
OwnNodes == 2        \* WithParams calls per behaviour of SpecOwn
MaxMutations == 1    \* writes of the caller into maps it holds (SpecOwn)

Keys == {"k1", "k2"}

NilMap == <<"nil", 0>>   \* the nil map[string]string
NoNode == 0              \* the nil *paramNode
NilCtx == -1             \* a nil context.Context
Background == 0          \* context.Background(): carries no param node
NoCall == NilCtx - 1      \* retCtx before the first Params call

VARIABLES
    nodes,      \* nodes[i]: the paramNode created by the i-th WithParams
    heap,       \* heap[a]: content of the map at address a
    ret,        \* address of the map the last Params call returned (the one
                \* returned map the caller still holds), NilMap before
    nmut,       \* number of caller writes so far
    retCtx,     \* the context argument of that Params call
    gor,        \* gor[g]: where goroutine g is in its Params call
    lockW,      \* lockW[n]: the goroutine holding mergedParamsMtx of node n
                \* exclusively, or NoGoroutine
    lockR,      \* lockR[n]: the goroutines holding its read lock
    pendW,      \* pendW[n]: the goroutines blocked in its Lock()
    call,       \* the Eventf call: its arguments and whether it has returned
    event,      \* the Event it returned
    eheap,      \* the maps of the call: the caller's, and those Eventf allocates
    wire,       \* an error on its way through encoding, the wire and decoding
    scan,       \* a template on its way through countFmtOperands
    defaultLogger,  \* the default logger and the calls it has received
    inMemory,   \* an InMemoryLogger and the goroutines that call it
    eager       \* the contexts of the eager implementations of WithParams

pvars == <<ret, retCtx, nmut>>
cvars == <<gor, lockW, lockR, pendW>>
evars == <<call, event, eheap>>
lvars == <<defaultLogger, inMemory, eager>>
vars ==
    <<nodes, heap, ret, retCtx, nmut, gor, lockW, lockR, pendW, call, event, eheap, wire, scan, defaultLogger, inMemory, eager>>

\* ---------------------------------------------------------------- maps
EmptyMap == << >>

\* the entries a `for k, v := range m` visits: none for the nil map
MapAt(hp, a) == IF a = NilMap THEN EmptyMap ELSE hp[a]

\* dst[k] = v for every k, v of src
Overlay(dst, src) ==
    [k \in (DOMAIN dst) \cup (DOMAIN src) |->
        IF k \in DOMAIN src THEN src[k] ELSE dst[k]]

\* the addresses the param nodes refer to
Refs(ns) ==
    ({ns[i].ChildParams : i \in 1 .. Len(ns)} \cup
     {ns[i].mergedParams : i \in 1 .. Len(ns)}) \ {NilMap}

\* a new map at address a with content m
Put(hp, a, m) == [x \in (DOMAIN hp) \cup {a} |-> IF x = a THEN m ELSE hp[x]]

\* garbage collection: maps nothing refers to any more are dropped
Compact(hp, live) == [x \in live \cap DOMAIN hp |-> hp[x]]

\* addresses of new maps: the binding map of the i-th WithParams, the
\* result map that params() makes for node n, and a map handed to the caller
InputAddr(i) == <<"in", i>>
MergedAddr(n) == <<"merged", n>>
RetAddr(ns) ==
    <<"ret", CHOOSE i \in 1 .. (Len(ns) + 1) :
        /\ <<"ret", i>> \notin Refs(ns)
        /\ \A j \in 1 .. (i - 1) : <<"ret", j>> \in Refs(ns)>>

\* make(map[string]string): a new, empty, non-nil map
MakeMap(hp, a) == [heap |-> Put(hp, a, EmptyMap), addr |-> a]

\* the binding maps a caller passes to WithParams
Bindings ==
    { [k \in {"k1", "k2"} |-> "a"],
      [k \in {"k1"} |-> "b"] }

\* the value a caller writes into a map it holds
Written == "w"

\* cloneStringMap: nil for nil, else a new map (at address a) with the same entries
cloneStringMap_alias(hp, a, m) == [heap |-> hp, addr |-> m]

cloneStringMap(hp, a, m) ==
    IF m = NilMap
    THEN [heap |-> hp, addr |-> NilMap]
    ELSE [heap |-> Put(hp, a, hp[m]), addr |-> a]

\* ---------------------------------------------------------------- params.go
paramNodeFromContext(ctx) ==
    IF ctx = NilCtx THEN NoNode
    ELSE IF ctx = Background THEN NoNode   \* ctx.Value(...) == nil
    ELSE ctx

\* context.WithValue(parent, key, &paramNode{Parent: parent, ChildParams: params}):
\* the map is stored as passed, and nothing else is written
WithParams_writesParent(ns, hp, parent, params) ==
    LET p == paramNodeFromContext(parent)
    IN [heap |-> IF p # NoNode /\ ns[p].ChildParams # NilMap
                 THEN [hp EXCEPT ![ns[p].ChildParams] = Overlay(@, MapAt(hp, params))]
                 ELSE hp,
        nodes |-> Append(ns, [Parent |-> parent, ChildParams |-> params,
                              mergedParams |-> NilMap])]

WithParams(ns, hp, parent, params) ==
    [heap |-> hp,
     nodes |-> Append(ns, [Parent |-> parent, ChildParams |-> params,
                           mergedParams |-> NilMap])]

\* for k, v := range src { res[k] = v }
mergeInto_keepsExisting(hp, res, src) ==
    [hp EXCEPT ![res] = Overlay(MapAt(hp, src), hp[res])]

mergeInto(hp, res, src) ==
    [hp EXCEPT ![res] = Overlay(hp[res], MapAt(hp, src))]

\* the cached branch of collectAllParamsAssumingReadLock
fromCache_skipsCopy(ns, hp, n, res) == hp

fromCache(ns, hp, n, res) == mergeInto(hp, res, ns[n].mergedParams)

RECURSIVE collectAllParamsAssumingReadLock(_, _, _, _)
collectAllParamsAssumingReadLock(ns, hp, n, res) ==
    IF ns[n].mergedParams # NilMap
    THEN fromCache(ns, hp, n, res)
    ELSE LET parentNode == paramNodeFromContext(ns[n].Parent)
             \* parentNode.collectAllParams(res): the same under the parent's read lock
             hp1 == IF parentNode # NoNode
                    THEN collectAllParamsAssumingReadLock(ns, hp, parentNode, res)
                    ELSE hp
         IN mergeInto(hp1, res, ns[n].ChildParams)

\* result := make(params, len(n.ChildParams))
makeResult_aliasesChild(ns, hp, n) ==
    IF ns[n].ChildParams # NilMap
    THEN [heap |-> hp, addr |-> ns[n].ChildParams]
    ELSE MakeMap(hp, MergedAddr(n))

makeResult(ns, hp, n) == MakeMap(hp, MergedAddr(n))

\* (n *paramNode).params(): the whole call, under n's exclusive lock
params(ns, hp, n) ==
    IF ns[n].mergedParams # NilMap
    THEN LET c == cloneStringMap(hp, RetAddr(ns), ns[n].mergedParams)
         IN [nodes |-> ns, heap |-> c.heap, ret |-> c.addr]
    ELSE LET r == makeResult(ns, hp, n)
             hp1 == collectAllParamsAssumingReadLock(ns, r.heap, n, r.addr)
             ns1 == [ns EXCEPT ![n].mergedParams = r.addr]
             c == cloneStringMap(hp1, RetAddr(ns), r.addr)
         IN [nodes |-> ns1, heap |-> c.heap, ret |-> c.addr]

Params_nilForNoNode(ns, hp, ctx) ==
    IF paramNodeFromContext(ctx) = NoNode
    THEN [nodes |-> ns, heap |-> hp, ret |-> NilMap]
    ELSE params(ns, hp, paramNodeFromContext(ctx))

Params(ns, hp, ctx) ==
    LET paramNode == paramNodeFromContext(ctx)
    IN IF paramNode = NoNode
       THEN LET r == MakeMap(hp, RetAddr(ns))
            IN [nodes |-> ns, heap |-> r.heap, ret |-> r.addr]
       ELSE params(ns, hp, paramNode)

\* ---------------------------------------------------------------- state
CtxOf(ns) == {NilCtx, Background} \cup (1 .. Len(ns))
Contexts == CtxOf(nodes)

\* what Params(ctx) would return in state (ns, hp): the content of the map
ParamsValue(ns, hp, ctx) ==
    LET r == Params(ns, Compact(hp, Refs(ns)), ctx) IN MapAt(r.heap, r.ret)

\* Params(c) of every context of ns, as a function of the context
AllParams(ns, hp) == [c \in CtxOf(ns) |-> ParamsValue(ns, hp, c)]

\* ---------------------------------------------------------------- errors.go
WireErrorTypeTerror == "terror"
WireErrorTypeSimple == "simple"

\* a Go string that is either plain text or the JSON text of an object with
\* the fields of a terrors.Error
Plain(s) == [json |-> FALSE, text |-> s, code |-> "", message |-> "", params |-> << >>]
ObjectText(code, message, ps) ==
    [json |-> TRUE, text |-> "", code |-> code, message |-> message, params |-> ps]

\* an error value: nil, an error that only has a message, or a *terrors.Error
NilError == [kind |-> "nil", msg |-> Plain(""), code |-> "", message |-> "", params |-> << >>]
SimpleError(msg) ==
    [kind |-> "simple", msg |-> msg, code |-> "", message |-> "", params |-> << >>]
TerrorError(code, message, ps) ==
    [kind |-> "terror", msg |-> Plain(""), code |-> code, message |-> message, params |-> ps]

NoProblem == ""

\* WireError{Typ, Data}
WireError(typ, data) == [Typ |-> typ, Data |-> data]
NoWireError == WireError("", Plain(""))

\* the bytes of a wrapper: well-formed JSON of an object or not, and for each
\* of the fields "type" and "data" whether it is absent, a string or a number
Field(kind, v) == [kind |-> kind, v |-> v]
Wrapper(ok, typ, data) == [ok |-> ok, type |-> typ, data |-> data]
NoWrapper == Wrapper(FALSE, Field("absent", ""), Field("absent", Plain("")))

WireTypes == {WireErrorTypeSimple, WireErrorTypeTerror, "", "bogus", "Simple"}
DataStrings ==
    { Plain("boom"), Plain(""), ObjectText("", "", << >>),
      ObjectText("bad_request.code", "unique-message", [k \in {"key"} |-> "value"]) }
Wrappers ==
    {NoWrapper} \cup
    { Wrapper(TRUE, t, d) :
        t \in {Field("absent", ""), Field("number", "")}
                \cup {Field("string", s) : s \in WireTypes},
        d \in {Field("absent", Plain("")), Field("number", Plain(""))}
                \cup {Field("string", s) : s \in DataStrings} }

\* a string with a byte that is no valid UTF-8, and the same string with the
\* Unicode replacement rune U+FFFD in the place of that byte
InvalidUTF8 == "b[0xFF]"
ReplacedUTF8 == "b[U+FFFD]"

\* json.Marshal writes a Go string coerced to valid UTF-8: every invalid byte
\* becomes U+FFFD; json.Unmarshal reads back the string that was written
ToValidUTF8(s) == IF s = InvalidUTF8 THEN ReplacedUTF8 ELSE s

\* json.Marshal of a string field that holds plain text or the text of an object
MarshalString(d) == IF d.json THEN d ELSE Plain(ToValidUTF8(d.text))

\* json.Marshal(t) of a *terrors.Error: the text of an object with its fields
MarshalTerror(t) ==
    ObjectText(ToValidUTF8(t.code), ToValidUTF8(t.message),
               [k \in DOMAIN t.params |-> ToValidUTF8(t.params[k])])

\* no error was given: the wrapper came over the wire
NoInput == [kind |-> "none", msg |-> Plain(""), code |-> "", message |-> "", params |-> << >>]

InputErrors ==
    { NilError, SimpleError(Plain("boom")), SimpleError(Plain("")),
      SimpleError(Plain(InvalidUTF8)),
      TerrorError("bad_request.code", "unique-message", [k \in {"key"} |-> "value"]),
      TerrorError("bad_request.code", InvalidUTF8, [k \in {"key"} |-> InvalidUTF8]),
      TerrorError("", "", << >>) }

\* fmt.Sprintf("%v", err) of an error that is no terror
ErrorString(err) == IF err.kind = "nil" THEN Plain("<nil>") ELSE err.msg

newSimpleWireError(err) == WireError(WireErrorTypeSimple, ErrorString(err))

\* a newWireError that takes every error for a simple one
newWireError_alwaysSimple(inputErr) ==
    [wire |-> newSimpleWireError(inputErr), err |-> NoProblem]

\* newWireError(inputErr): the WireError and the error of json.Marshal
newWireError(inputErr) ==
    IF inputErr.kind = "terror"
    THEN [wire |-> WireError(WireErrorTypeTerror, MarshalTerror(inputErr)),
          err |-> NoProblem]
    ELSE [wire |-> newSimpleWireError(inputErr), err |-> NoProblem]

\* json.Marshal(wireErr)
Marshal(w) == Wrapper(TRUE, Field("string", w.Typ), Field("string", MarshalString(w.Data)))

\* NewWireErrorFromWrapper(wrapper): json.Unmarshal into a zero WireError
NewWireErrorFromWrapper(wrapper) ==
    IF ~wrapper.ok \/ wrapper.type.kind = "number" \/ wrapper.data.kind = "number"
    THEN [ok |-> FALSE, wire |-> NoWireError, err |-> "cannot unmarshal to WireError"]
    ELSE [ok |-> TRUE,
          wire |-> WireError(IF wrapper.type.kind = "string" THEN wrapper.type.v ELSE "",
                             IF wrapper.data.kind = "string" THEN wrapper.data.v
                             ELSE Plain("")),
          err |-> NoProblem]

\* a Decode that takes every unknown type for a simple error
Decode_defaultsToSimple(w) ==
    IF w.Typ = WireErrorTypeTerror
    THEN IF w.Data.json
         THEN [err |-> TerrorError(w.Data.code, w.Data.message, w.Data.params),
               problem |-> NoProblem]
         ELSE [err |-> NilError, problem |-> "invalid character"]
    ELSE [err |-> SimpleError(w.Data), problem |-> NoProblem]

\* w.Decode(): the decoded error and the problem
Decode(w) ==
    IF w.Typ = WireErrorTypeSimple
    THEN [err |-> SimpleError(w.Data), problem |-> NoProblem]
    ELSE IF w.Typ = WireErrorTypeTerror
    THEN IF w.Data.json
         THEN [err |-> TerrorError(w.Data.code, w.Data.message, w.Data.params),
               problem |-> NoProblem]
         ELSE [err |-> NilError, problem |-> "invalid character"]
    ELSE [err |-> NilError, problem |-> "unknown wire error type"]

\* no error on the wire
NoWire ==
    [pc |-> "idle", input |-> NoInput, wrapper |-> NoWrapper, wireErr |-> NoWireError,
     decoded |-> NilError, problem |-> NoProblem]

\* no template is being scanned
NoScan == [pc |-> "idle", template |-> << >>, directives |-> << >>, expected |-> -1, n |-> 0]

\* no context of an eager implementation has been made
NoEager == [merged |-> << >>, immutable |-> << >>, ret |-> << >>, builtin |-> << >>]

\* no default logger is set
NoLogger == [kind |-> "nil", items |-> << >>, events |-> << >>, failed |-> FALSE, calls |-> << >>]

\* no InMemoryLogger has been made
NoInMemory == [mutex |-> 0, events |-> << >>, pc |-> << >>, evs |-> << >>, old |-> << >>,
               logged |-> << >>, output |-> << >>]

\* ---------------------------------------------------------------- events
TraceSeverity == 1
DebugSeverity == 2
InfoSeverity == 3
WarnSeverity == 4
ErrorSeverity == 5
CriticalSeverity == 6
Severities == {InfoSeverity, ErrorSeverity}

\* Event{}
ZeroEvent ==
    [Context |-> NilCtx, Id |-> "", Timestamp |-> "zero", Severity |-> 0, Message |-> "",
     Metadata |-> NilMap, RawMetadata |-> NilMap, Labels |-> NilMap]

\* no Eventf call
NoEventCall ==
    [pc |-> "idle", sev |-> InfoSeverity, ctx |-> NilCtx, msg |-> << >>, params |-> << >>,
     idFails |-> FALSE]

Init ==
    /\ nodes = << >>
    /\ heap = << >>
    /\ ret = NilMap
    /\ nmut = 0
    /\ retCtx = NoCall
    /\ gor = << >>
    /\ lockW = << >>
    /\ lockR = << >>
    /\ pendW = << >>
    /\ call = NoEventCall
    /\ event = ZeroEvent
    /\ eheap = << >>
    /\ wire = NoWire
    /\ scan = NoScan
    /\ defaultLogger = NoLogger
    /\ inMemory = NoInMemory
    /\ eager = NoEager

\* ctx' := WithParams(parent, m), m a map the caller has just built
WithParamsNew(limit, parent, m) ==
    /\ Len(nodes) < limit
    /\ LET a == InputAddr(Len(nodes) + 1)
           r == WithParams(nodes, Put(heap, a, m), parent, a)
       IN /\ heap' = r.heap
          /\ nodes' = r.nodes
    /\ UNCHANGED <<ret, retCtx, nmut, cvars, evars, wire, scan, lvars>>

\* ctx' := WithParams(parent, m), m a map the caller already holds: nil, a map
\* it bound before, or the map Params returned
WithParamsHeld(limit, parent, a) ==
    /\ Len(nodes) < limit
    /\ LET r == WithParams(nodes, heap, parent, a)
       IN /\ heap' = r.heap
          /\ nodes' = r.nodes
    /\ UNCHANGED <<ret, retCtx, nmut, cvars, evars, wire, scan, lvars>>

\* m := Params(ctx); the caller lets go of the map an earlier call returned
ParamsCall(ctx) ==
    /\ LET r == Params(nodes, Compact(heap, Refs(nodes)), ctx)
       IN /\ nodes' = r.nodes
          /\ heap' = r.heap
          /\ ret' = r.ret
          /\ retCtx' = ctx
    /\ UNCHANGED <<nmut, cvars, evars, wire, scan, lvars>>

\* m[k] = v by the caller, on a map it holds
CallerSet(a, k) ==
    /\ nmut < MaxMutations
    /\ heap' = [heap EXCEPT ![a] = Overlay(heap[a], [x \in {k} |-> Written])]
    /\ nmut' = nmut + 1
    /\ UNCHANGED <<nodes, ret, retCtx, cvars, evars, wire, scan, lvars>>

\* delete(m, k) by the caller, on a map it holds
CallerDelete(a, k) ==
    /\ nmut < MaxMutations
    /\ k \in DOMAIN heap[a]
    /\ heap' = [heap EXCEPT ![a] = [x \in (DOMAIN heap[a]) \ {k} |-> heap[a][x]]]
    /\ nmut' = nmut + 1
    /\ UNCHANGED <<nodes, ret, retCtx, cvars, evars, wire, scan, lvars>>

\* context.WithValue panics on a nil parent, so a parent is never NilCtx
Parents == {Background} \cup (1 .. Len(nodes))

\* the binding maps of the nodes: the caller built them and may still hold them
Inputs == {nodes[i].ChildParams : i \in 1 .. Len(nodes)} \ {NilMap}

Held == (Inputs \cup {ret}) \ {NilMap}

BindNew(limit) == \E parent \in Parents, m \in Bindings : WithParamsNew(limit, parent, m)

BindHeld(limit, maps) == \E parent \in Parents, a \in maps : WithParamsHeld(limit, parent, a)

Resolve == \E ctx \in Contexts : ParamsCall(ctx)

MutateSet == \E a \in Held : CallerSet(a, "k1")

MutateDelete == \E a \in Held : CallerDelete(a, "k1")

\* binding and resolving, the caller's maps left alone
Next ==
    \/ BindNew(MaxNodes)
    \/ BindHeld(MaxNodes, {NilMap})
    \/ Resolve

Spec == Init /\ [][Next]_vars

\* the same with a caller that binds one map several times
NextBind ==
    \/ BindNew(BindNodes)
    \/ BindHeld(BindNodes, Inputs)
    \/ Resolve

SpecBind == Init /\ [][NextBind]_vars

\* the same with a caller that also writes to the maps it holds
NextOwn ==
    \/ BindNew(OwnNodes)
    \/ BindHeld(OwnNodes, Inputs)
    \/ Resolve
    \/ MutateSet
    \/ MutateDelete

SpecOwn == Init /\ [][NextOwn]_vars

\* ---------------------------------------------------------------- reference
\* the maps of a chain applied in root-to-leaf order
RECURSIVE Flatten(_, _, _)
Flatten(ns, hp, ctx) ==
    IF ctx = NilCtx \/ ctx = Background
    THEN EmptyMap
    ELSE Overlay(Flatten(ns, hp, ns[ctx].Parent), MapAt(hp, ns[ctx].ChildParams))

Cached(ns, c) == c \in 1 .. Len(ns) /\ ns[c].mergedParams # NilMap

\* the nodes on the chain of context c, c's own node included
RECURSIVE Chain(_, _)
Chain(ns, c) == IF c = NilCtx \/ c = Background THEN {} ELSE {c} \cup Chain(ns, ns[c].Parent)

\* the same tree with no flattening cached
ClearCaches(ns) == [i \in 1 .. Len(ns) |-> [ns[i] EXCEPT !.mergedParams = NilMap]]

\* ---------------------------------------------------------------- goroutines
\* Concurrent Params calls on one tree, a step per lock operation and per
\* access to a node's fields between them.
Goroutines == 2      \* goroutines calling Params
NoGoroutine == 0

\* the trees, as the Parent of each node: a chain, two children of one node,
\* and two roots of which one has a child
ConcTrees == { <<0, 1, 2>>, <<0, 1, 1>>, <<0, 0, 1>> }

ConcBindings ==
    << [k \in {"k1", "k2"} |-> "a"], [k \in {"k1"} |-> "b"], [k \in {"k2"} |-> "b"] >>

\* the tree WithParams builds for the parents `shape`
TreeOf(shape) ==
    [i \in 1 .. Len(shape) |->
        [Parent |-> shape[i], ChildParams |-> InputAddr(i), mergedParams |-> NilMap]]

Idle == [pc |-> "idle", ctx |-> Background, cur |-> NoNode, hit |-> FALSE, ret |-> NilMap]

InitConc ==
    /\ \E shape \in ConcTrees : nodes = TreeOf(shape)
    /\ heap = [a \in {InputAddr(i) : i \in 1 .. Len(nodes)} |-> ConcBindings[a[2]]]
    /\ ret = NilMap
    /\ retCtx = NoCall
    /\ nmut = 0
    /\ gor = [g \in 1 .. Goroutines |-> Idle]
    /\ lockW = [n \in 1 .. Len(nodes) |-> NoGoroutine]
    /\ lockR = [n \in 1 .. Len(nodes) |-> {}]
    /\ pendW = [n \in 1 .. Len(nodes) |-> {}]
    /\ call = NoEventCall
    /\ event = ZeroEvent
    /\ eheap = << >>
    /\ wire = NoWire
    /\ scan = NoScan
    /\ defaultLogger = NoLogger
    /\ inMemory = NoInMemory
    /\ eager = NoEager

\* the map goroutine g's call returns
GoRet(g) == <<"ret", g>>

\* the node of g's call, and the node below cur on the way up from it
Target(g) == paramNodeFromContext(gor[g].ctx)
Below(g) == CHOOSE x \in Chain(nodes, Target(g)) : nodes[x].Parent = gor[g].cur

\* where collectAllParamsAssumingReadLock(cur) goes after finding no cache:
\* to the parent's collectAllParams, or to its own merge loop
AfterMiss(cur) ==
    IF paramNodeFromContext(nodes[cur].Parent) # NoNode THEN "rlock" ELSE "merge"

\* a collectAllParamsAssumingReadLock that calls collectAllParams of its own node
parentNode_self(cur) == cur

\* parentNode := paramNodeFromContext(n.Parent): the node whose
\* collectAllParams is called
parentNode(cur) == paramNodeFromContext(nodes[cur].Parent)

\* Params(ctx), up to paramNode.params()
GoCall(g, ctx) ==
    /\ gor[g].pc = "idle"
    /\ IF paramNodeFromContext(ctx) = NoNode
       THEN LET r == MakeMap(heap, GoRet(g))
            IN /\ heap' = r.heap
               /\ gor' = [gor EXCEPT ![g] = [@ EXCEPT !.pc = "done", !.ctx = ctx, !.ret = r.addr]]
       ELSE /\ gor' = [gor EXCEPT ![g] = [@ EXCEPT !.pc = "lock", !.ctx = ctx]]
            /\ UNCHANGED heap
    /\ UNCHANGED <<nodes, pvars, evars, wire, scan, lvars, lockW, lockR, pendW>>

\* n.mergedParamsMtx.Lock() is entered: new readers now wait
GoLockEnter(g) ==
    /\ gor[g].pc = "lock"
    /\ pendW' = [pendW EXCEPT ![Target(g)] = @ \cup {g}]
    /\ gor' = [gor EXCEPT ![g].pc = "locking"]
    /\ UNCHANGED <<nodes, heap, pvars, evars, wire, scan, lvars, lockW, lockR>>

\* a Lock that does not wait for the goroutine that holds the write lock
CanLock_ignoresWriter(n) == lockR[n] = {}

CanLock(n) == lockW[n] = NoGoroutine /\ lockR[n] = {}

\* n.mergedParamsMtx.Lock() returns
GoLock(g) ==
    /\ gor[g].pc = "locking"
    /\ CanLock(Target(g))
    /\ lockW' = [lockW EXCEPT ![Target(g)] = g]
    /\ pendW' = [pendW EXCEPT ![Target(g)] = @ \ {g}]
    /\ gor' = [gor EXCEPT ![g].pc = "check"]
    /\ UNCHANGED <<nodes, heap, pvars, evars, wire, scan, lvars, lockR>>

\* if n.mergedParams != nil { return clone }; result := make(...);
\* n.collectAllParamsAssumingReadLock(result) up to its parent's lock
GoCheck(g) ==
    /\ gor[g].pc = "check"
    /\ LET n == Target(g)
       IN IF nodes[n].mergedParams # NilMap
          THEN LET c == cloneStringMap(heap, GoRet(g), nodes[n].mergedParams)
               IN /\ heap' = c.heap
                  /\ gor' = [gor EXCEPT ![g] =
                                [@ EXCEPT !.pc = "unlock", !.hit = TRUE, !.ret = c.addr]]
          ELSE LET r == makeResult(nodes, heap, n)
               IN /\ heap' = r.heap
                  /\ gor' = [gor EXCEPT ![g] =
                                [@ EXCEPT !.pc = AfterMiss(n), !.cur = n, !.hit = FALSE]]
    /\ UNCHANGED <<nodes, pvars, evars, wire, scan, lvars, lockW, lockR, pendW>>

\* an RLock that does not wait for the goroutine that holds the write lock
CanRLock_ignoresWriter(n) == pendW[n] = {}

CanRLock(n) == lockW[n] = NoGoroutine /\ pendW[n] = {}

\* parentNode.collectAllParams(res): n.mergedParamsMtx.RLock() of the parent
GoRLock(g) ==
    /\ gor[g].pc = "rlock"
    /\ LET p == parentNode(gor[g].cur)
       IN /\ CanRLock(p)
          /\ lockR' = [lockR EXCEPT ![p] = @ \cup {g}]
          /\ gor' = [gor EXCEPT ![g] = [@ EXCEPT !.pc = "read", !.cur = p]]
    /\ UNCHANGED <<nodes, heap, pvars, evars, wire, scan, lvars, lockW, pendW>>

\* collectAllParamsAssumingReadLock of an ancestor: copy its cache if it has one
GoRead(g) ==
    /\ gor[g].pc = "read"
    /\ LET cur == gor[g].cur
       IN IF nodes[cur].mergedParams # NilMap
          THEN /\ heap' = fromCache(nodes, heap, cur, MergedAddr(Target(g)))
               /\ gor' = [gor EXCEPT ![g].pc = "runlock"]
          ELSE /\ gor' = [gor EXCEPT ![g].pc = AfterMiss(cur)]
               /\ UNCHANGED heap
    /\ UNCHANGED <<nodes, pvars, evars, wire, scan, lvars, lockW, lockR, pendW>>

\* for k, v := range n.ChildParams { res[k] = v }
GoMerge(g) ==
    /\ gor[g].pc = "merge"
    /\ LET cur == gor[g].cur
       IN /\ heap' = mergeInto(heap, MergedAddr(Target(g)), nodes[cur].ChildParams)
          /\ gor' = [gor EXCEPT ![g].pc = IF cur = Target(g) THEN "store" ELSE "runlock"]
    /\ UNCHANGED <<nodes, pvars, evars, wire, scan, lvars, lockW, lockR, pendW>>

\* the deferred RUnlock of collectAllParams; the caller goes on to its merge loop
GoRUnlock(g) ==
    /\ gor[g].pc = "runlock"
    /\ lockR' = [lockR EXCEPT ![gor[g].cur] = @ \ {g}]
    /\ gor' = [gor EXCEPT ![g] = [@ EXCEPT !.pc = "merge", !.cur = Below(g)]]
    /\ UNCHANGED <<nodes, heap, pvars, evars, wire, scan, lvars, lockW, pendW>>

\* n.mergedParams = result; return cloneStringMap(result)
GoStore(g) ==
    /\ gor[g].pc = "store"
    /\ LET n == Target(g)
           c == cloneStringMap(heap, GoRet(g), MergedAddr(n))
       IN /\ nodes' = [nodes EXCEPT ![n].mergedParams = MergedAddr(n)]
          /\ heap' = c.heap
          /\ gor' = [gor EXCEPT ![g] = [@ EXCEPT !.pc = "unlock", !.ret = c.addr]]
    /\ UNCHANGED <<pvars, evars, wire, scan, lvars, lockW, lockR, pendW>>

\* the deferred Unlock of params()
GoUnlock(g) ==
    /\ gor[g].pc = "unlock"
    /\ lockW' = [lockW EXCEPT ![Target(g)] = NoGoroutine]
    /\ gor' = [gor EXCEPT ![g].pc = "done"]
    /\ UNCHANGED <<nodes, heap, pvars, evars, wire, scan, lvars, lockR, pendW>>

\* a goroutine calls Params on Background or on a context of the tree
GoParams ==
    \E g \in 1 .. Goroutines : \E ctx \in {Background} \cup (1 .. Len(nodes)) : GoCall(g, ctx)

NextConc ==
    \/ GoParams
    \/ \E g \in 1 .. Goroutines : GoLockEnter(g)
    \/ \E g \in 1 .. Goroutines : GoLock(g)
    \/ \E g \in 1 .. Goroutines : GoCheck(g)
    \/ \E g \in 1 .. Goroutines : GoRLock(g)
    \/ \E g \in 1 .. Goroutines : GoRead(g)
    \/ \E g \in 1 .. Goroutines : GoMerge(g)
    \/ \E g \in 1 .. Goroutines : GoRUnlock(g)
    \/ \E g \in 1 .. Goroutines : GoStore(g)
    \/ \E g \in 1 .. Goroutines : GoUnlock(g)

SpecConc == InitConc /\ [][NextConc]_vars

\* the steps of goroutine g's call once it is made
GoStep(g) ==
    \/ GoLockEnter(g) \/ GoLock(g) \/ GoCheck(g) \/ GoRLock(g) \/ GoRead(g)
    \/ GoMerge(g) \/ GoRUnlock(g) \/ GoStore(g) \/ GoUnlock(g)

\* the scheduler runs every goroutine that can take a step, and a mutex that
\* is free is handed to a goroutine that waits for it
SpecConcFair == SpecConc /\ \A g \in 1 .. Goroutines : WF_vars(GoStep(g))

\* C7: under every interleaving of concurrent Params calls on one tree, each
\* call returns the nearest-wins flattening of its own context, whether it found
\* the cache of its node set or unset, so two calls on one context return equal
\* maps.
C7_ConcurrentParams ==
    /\ \A g \in 1 .. Goroutines :
          gor[g].pc = "done" => MapAt(heap, gor[g].ret) = Flatten(nodes, heap, gor[g].ctx)
    /\ \A g, h \in 1 .. Goroutines :
          (gor[g].pc = "done" /\ gor[h].pc = "done" /\ gor[g].ctx = gor[h].ctx)
              => MapAt(heap, gor[g].ret) = MapAt(heap, gor[h].ret)

\* two calls on one child context have returned, one that computed the
\* flattening and one that found it cached
C7_Witness ==
    \E g, h \in 1 .. Goroutines :
        /\ gor[g].pc = "done" /\ gor[h].pc = "done"
        /\ gor[g].ctx = gor[h].ctx
        /\ paramNodeFromContext(gor[g].ctx) # NoNode
        /\ nodes[gor[g].ctx].Parent # Background
        /\ ~gor[g].hit /\ gor[h].hit
        /\ heap[gor[g].ret] = [k \in {"k1", "k2"} |-> IF k = "k1" THEN "b" ELSE "a"]

\* ---------------------------------------------------------------- event.go
MaxArgs == 3         \* variadic arguments of an Eventf call

\* an interface{} value: its dynamic type t and, by type, the string s, the
\* integer n or the address a of the map it holds
Value(t, s, n, a) == [t |-> t, s |-> s, n |-> n, a |-> a]
StrVal(s) == Value("string", s, 0, NilMap)
IntVal(n) == Value("int", "", n, NilMap)
NilVal == Value("nil", "", 0, NilMap)
ErrVal(s) == Value("*errors.errorString", s, 0, NilMap)       \* errors.New(s)
SMapVal(a) == Value("map[string]string", "", 0, a)
IMapVal(a) == Value("map[string]interface {}", "", 0, a)
ProvVal(a) == Value("slog.testLogMetadataProvider", "", 0, a)  \* LogMetadata() returns a

IsError(v) == v.t = "*errors.errorString"
IsStringMap(v) == v.t = "map[string]string"
IsRawMap(v) == v.t = "map[string]interface {}"
IsProvider(v) == v.t = "slog.testLogMetadataProvider"

\* the maps the caller of Eventf holds: a map[string]string has strings as
\* values, a map[string]interface{} has interface{} values
ArgMaps ==
    (<<"smap", 1>> :> [k \in {"k1"} |-> "explicit"])
    @@ (<<"smap", 2>> :> << >>)
    @@ (<<"imap", 1>> :> [k \in {"k1", "k2"} |-> IF k = "k1" THEN IntVal(7) ELSE StrVal("raw")])
    @@ (<<"prov", 1>> :> [k \in {"k1", "k2"} |-> "provided"])
    @@ (<<"prov", 2>> :> [k \in {"k2"} |-> "other"])

ArgValues ==
    { StrVal("bar"), IntVal(7), NilVal, ErrVal("boom"),
      SMapVal(<<"smap", 1>>), SMapVal(<<"smap", 2>>), IMapVal(<<"imap", 1>>),
      ProvVal(<<"prov", 1>>), ProvVal(<<"prov", 2>>) }

\* message templates, a character at a time: "m", "m%v", "%v %v", "m%%"
Templates ==
    { <<"m">>, <<"m", "%", "v">>, <<"%", "v", " ", "%", "v">>, <<"m", "%", "%">> }

\* the Go string of a sequence of characters
RECURSIVE TextFrom(_, _)
TextFrom(msg, i) == IF i > Len(msg) THEN "" ELSE msg[i] \o TextFrom(msg, i + 1)
Text(msg) == TextFrom(msg, 1)

MetaAddr == <<"meta", 0>>    \* the map[string]string Eventf allocates
RawAddr == <<"raw", 0>>      \* the map[string]interface{} Eventf allocates

\* the keys of a map in the order fmt prints them (sorted)
KeyOrder == <<"error", "k1", "k2">>

RECURSIVE joinEntries(_, _, _)
joinEntries(m, i, sep) ==
    IF i > Len(KeyOrder) THEN ""
    ELSE IF KeyOrder[i] \in DOMAIN m
         THEN sep \o KeyOrder[i] \o ":" \o m[KeyOrder[i]] \o joinEntries(m, i + 1, " ")
         ELSE joinEntries(m, i + 1, sep)

\* fmt's rendering of a map whose values are already rendered
MapString(m) == "map[" \o joinEntries(m, 1, "") \o "]"

\* fmt.Sprint(v), which is also what the verb %v renders
RECURSIVE Sprint(_, _)
Sprint(hp, v) ==
    IF v.t = "string" THEN v.s
    ELSE IF v.t = "int" THEN ToString(v.n)
    ELSE IF v.t = "nil" THEN "<nil>"
    ELSE IF IsError(v) THEN v.s
    ELSE IF IsRawMap(v)
         THEN MapString([k \in DOMAIN MapAt(hp, v.a) |-> Sprint(hp, MapAt(hp, v.a)[k])])
         ELSE MapString(MapAt(hp, v.a))

\* the arguments no verb consumed: %!(EXTRA type=value, ...)
RECURSIVE extraArgs(_, _, _)
extraArgs(hp, args, j) ==
    IF j > Len(args) THEN ")"
    ELSE (IF args[j].t = "nil" THEN "<nil>" ELSE args[j].t \o "=" \o Sprint(hp, args[j]))
         \o (IF j < Len(args) THEN ", " ELSE "") \o extraArgs(hp, args, j + 1)

\* one verb applied to one argument
printVerb(hp, verb, arg) ==
    IF verb = "v" THEN Sprint(hp, arg)
    ELSE IF arg.t = "nil" THEN "%!" \o verb \o "(<nil>)"
    ELSE "%!" \o verb \o "(" \o arg.t \o "=" \o Sprint(hp, arg) \o ")"

RECURSIVE doPrintf(_, _, _, _, _)
doPrintf(hp, msg, args, i, j) ==
    IF i > Len(msg)
    THEN IF j <= Len(args) THEN "%!(EXTRA " \o extraArgs(hp, args, j) ELSE ""
    ELSE IF msg[i] # "%" THEN msg[i] \o doPrintf(hp, msg, args, i + 1, j)
    ELSE IF i = Len(msg) THEN "%!(NOVERB)"
    ELSE IF msg[i + 1] = "%" THEN "%" \o doPrintf(hp, msg, args, i + 2, j)
    ELSE IF j > Len(args)
         THEN "%!" \o msg[i + 1] \o "(MISSING)" \o doPrintf(hp, msg, args, i + 2, j)
         ELSE printVerb(hp, msg[i + 1], args[j]) \o doPrintf(hp, msg, args, i + 2, j + 1)

\* fmt.Sprintf(msg, args...)
Sprintf(hp, msg, args) == doPrintf(hp, msg, args, 1, 1)

\* the decimal digits and their values
Digits == <<"0", "1", "2", "3", "4", "5", "6", "7", "8", "9">>
IsDigit(c) == \E d \in 1..10 : Digits[d] = c
DigitValue(c) == (CHOOSE d \in 1..10 : Digits[d] = c) - 1

\* the flags of a directive
Flags == {"#", "0", "+", "-", " "}

\* a number too large to be a width, a precision or an argument index
tooLarge(x) == x > 1000000

\* parsenum(s, start, end): the decimal number of s from i up to end (not
\* included), whether there is one, and the place after it
RECURSIVE parsenum(_, _, _, _, _)
parsenum(s, i, end, num, isnum) ==
    IF i < end /\ IsDigit(s[i])
    THEN IF tooLarge(num) THEN [num |-> 0, isnum |-> FALSE, newi |-> end]
         ELSE parsenum(s, i + 1, end, num * 10 + DigitValue(s[i]), TRUE)
    ELSE [num |-> num, isnum |-> isnum, newi |-> i]

\* the place of the first c in s from i on, Len(s) + 1 when there is none
RECURSIVE indexFrom(_, _, _)
indexFrom(s, c, i) ==
    IF i > Len(s) THEN i
    ELSE IF s[i] = c THEN i
    ELSE indexFrom(s, c, i + 1)

\* the place after the flags that start at i
RECURSIVE skipFlags(_, _)
skipFlags(s, i) ==
    IF i <= Len(s) /\ s[i] \in Flags THEN skipFlags(s, i + 1) ELSE i

\* the element of a set of one element: a step of the scan is computed once
\* and named by the variable that ranges over the set
The(S) == CHOOSE x \in S : TRUE

\* parseArgNumber: s[i] is "["; the argument number of "[n]" counted from 0,
\* the place after the index and whether it is well formed
parseArgNumber(s, i) ==
    The({ IF Len(s) - i + 1 < 3 \/ close > Len(s)
          THEN [index |-> 0, newi |-> i + 1, ok |-> FALSE]
          ELSE The({ IF ~r.isnum \/ r.newi # close
                     THEN [index |-> 0, newi |-> close + 1, ok |-> FALSE]
                     ELSE [index |-> r.num - 1, newi |-> close + 1, ok |-> TRUE] :
                     r \in {parsenum(s, i + 1, close, 0, FALSE)} }) :
          close \in {indexFrom(s, "]", i + 1)} })

\* an argNumber that reads an explicit index and goes on with the running
\* argument number
argNumber_ignoresIndex(s, i, argNum) ==
    IF i > Len(s) \/ s[i] # "["
    THEN [argNum |-> argNum, newi |-> i, found |-> FALSE, good |-> TRUE]
    ELSE The({ [argNum |-> argNum, newi |-> r.newi, found |-> r.ok,
                good |-> r.ok /\ 0 <= r.index] :
               r \in {parseArgNumber(s, i)} })

\* argNumber: the argument number after an optional explicit index at i
argNumber(s, i, argNum) ==
    IF i > Len(s) \/ s[i] # "["
    THEN [argNum |-> argNum, newi |-> i, found |-> FALSE, good |-> TRUE]
    ELSE The({ IF r.ok /\ 0 <= r.index
               THEN [argNum |-> r.index, newi |-> r.newi, found |-> TRUE, good |-> TRUE]
               ELSE [argNum |-> argNum, newi |-> r.newi, found |-> r.ok, good |-> FALSE] :
               r \in {parseArgNumber(s, i)} })

Max(a, b) == IF a >= b THEN a ELSE b

\* the width of a directive from i on: "*" takes one argument, a number none
scanWidth(s, i, argNum, maxArgNum) ==
    The({ IF a.newi <= Len(s) /\ s[a.newi] = "*"
          THEN [argNum |-> a.argNum + 1, maxArgNum |-> Max(maxArgNum, a.argNum + 1),
                newi |-> a.newi + 1, afterIndex |-> FALSE, good |-> a.good]
          ELSE The({ [argNum |-> a.argNum, maxArgNum |-> maxArgNum, newi |-> r.newi,
                      afterIndex |-> a.found, good |-> a.good /\ ~(a.found /\ r.isnum)] :
                     r \in {parsenum(s, a.newi, Len(s) + 1, 0, FALSE)} }) :
          a \in {argNumber(s, i, argNum)} })

\* the precision of a directive, after the width w
scanPrecision(s, w) ==
    IF w.newi <= Len(s) /\ s[w.newi] = "."
    THEN The({ IF a.newi <= Len(s) /\ s[a.newi] = "*"
               THEN [argNum |-> a.argNum + 1,
                     maxArgNum |-> Max(w.maxArgNum, a.argNum + 1),
                     newi |-> a.newi + 1, afterIndex |-> FALSE,
                     good |-> w.good /\ ~w.afterIndex /\ a.good]
               ELSE The({ [argNum |-> a.argNum, maxArgNum |-> w.maxArgNum,
                           newi |-> r.newi, afterIndex |-> a.found,
                           good |-> w.good /\ ~w.afterIndex /\ a.good] :
                          r \in {parsenum(s, a.newi, Len(s) + 1, 0, FALSE)} }) :
               a \in {argNumber(s, w.newi + 1, w.argNum)} })
    ELSE w

\* the index that may stand right before the verb, after the precision q
scanVerbIndex(s, q) ==
    IF q.afterIndex THEN q
    ELSE The({ [q EXCEPT !.argNum = a.argNum, !.newi = a.newi, !.afterIndex = a.found,
                         !.good = q.good /\ a.good] :
               a \in {argNumber(s, q.newi, q.argNum)} })

\* countFmtOperands(msg) from place i on: argNum arguments are behind the
\* running position and maxArgNum is the highest position used so far; "%%"
\* is a literal percent and takes no argument
RECURSIVE countFrom(_, _, _, _)
countFrom(msg, i, argNum, maxArgNum) ==
    The({ IF percent > Len(msg) THEN maxArgNum
          ELSE The({ IF v.newi > Len(msg) THEN v.maxArgNum
                     ELSE IF msg[v.newi] = "%" \/ ~v.good
                     THEN countFrom(msg, v.newi + 1, v.argNum, v.maxArgNum)
                     ELSE countFrom(msg, v.newi + 1, v.argNum + 1,
                                    Max(v.maxArgNum, v.argNum + 1)) :
                     v \in { scanVerbIndex(msg, q) :
                             q \in { scanPrecision(msg, w) :
                                     w \in { scanWidth(msg, f, argNum, maxArgNum) :
                                             f \in {skipFlags(msg, percent + 1)} } } } }) :
          percent \in {indexFrom(msg, "%", i)} })

countFmtOperands(msg) == countFrom(msg, 1, 0, 0)

\* Event{Context: ..., Id: id.String(), Timestamp: time.Now().UTC(), ...}
NewEvent(ctx, sev, message, metadata, rawMetadata) ==
    [Context |-> ctx, Id |-> "uuid", Timestamp |-> "now", Severity |-> sev,
     Message |-> message, Metadata |-> metadata, RawMetadata |-> rawMetadata,
     Labels |-> NilMap]

createErrorEvent_sprintf(hp, ctx, sev, msg, err) ==
    [heap |-> Put(Put(hp, MetaAddr, [k \in {"error"} |-> err.s]),
                  RawAddr, [k \in {"error"} |-> err]),
     event |-> NewEvent(ctx, sev, Sprintf(hp, msg, <<err>>), MetaAddr, RawAddr)]

createErrorEvent(hp, ctx, sev, msg, err) ==
    [heap |-> Put(Put(hp, MetaAddr, [k \in {"error"} |-> err.s]),
                  RawAddr, [k \in {"error"} |-> err]),
     event |-> NewEvent(ctx, sev, Text(msg), MetaAddr, RawAddr)]

\* merge that lets the entries of new replace the existing ones
mergeMetadata_overwrites(hp, current, new) ==
    IF DOMAIN MapAt(hp, new) = {} THEN [heap |-> hp, addr |-> current]
    ELSE LET c == IF current = NilMap THEN MakeMap(hp, MetaAddr)
                  ELSE [heap |-> hp, addr |-> current]
         IN [heap |-> [c.heap EXCEPT ![c.addr] = Overlay(@, MapAt(c.heap, new))],
             addr |-> c.addr]

\* mergeMetadata(current, new): current, allocated if it is nil and new has
\* entries, with the entries of new under keys it does not have yet
mergeMetadata(hp, current, new) ==
    IF DOMAIN MapAt(hp, new) = {} THEN [heap |-> hp, addr |-> current]
    ELSE LET c == IF current = NilMap THEN MakeMap(hp, MetaAddr)
                  ELSE [heap |-> hp, addr |-> current]
         IN [heap |-> [c.heap EXCEPT ![c.addr] = Overlay(MapAt(c.heap, new), @)],
             addr |-> c.addr]

mergeRawMetadata(hp, current, new) ==
    IF DOMAIN MapAt(hp, new) = {} THEN [heap |-> hp, addr |-> current]
    ELSE LET c == IF current = NilMap THEN MakeMap(hp, RawAddr)
                  ELSE [heap |-> hp, addr |-> current]
         IN [heap |-> [c.heap EXCEPT ![c.addr] = Overlay(MapAt(c.heap, new), @)],
             addr |-> c.addr]

\* the metadata of the call so far
NoMetadata(hp) == [heap |-> hp, metadata |-> NilMap, rawMetadata |-> NilMap]

\* a string map taken as the metadata itself, without the merge into a new map
metadataFromStrings_aliases(hp, a) ==
    LET md == MapAt(hp, a)
    IN [heap |-> Put(hp, RawAddr, [k \in DOMAIN md |-> StrVal(md[k])]),
        metadata |-> a, rawMetadata |-> RawAddr]

\* metadataParam.(map[string]string): merged into metadata, and every entry of
\* metadata copied into a new rawMetadata
metadataFromStrings(hp, a) ==
    LET m == mergeMetadata(hp, NilMap, a)
        md == MapAt(m.heap, m.addr)
    IN [heap |-> Put(m.heap, RawAddr, [k \in DOMAIN md |-> StrVal(md[k])]),
        metadata |-> m.addr, rawMetadata |-> RawAddr]

\* metadataParam.(map[string]interface{}): merged into rawMetadata, and every
\* entry of rawMetadata stringified into a new metadata
metadataFromRaw(hp, a) ==
    LET r == mergeRawMetadata(hp, NilMap, a)
        raw == MapAt(r.heap, r.addr)
    IN [heap |-> Put(r.heap, MetaAddr, [k \in DOMAIN raw |-> Sprint(r.heap, raw[k])]),
        metadata |-> MetaAddr, rawMetadata |-> r.addr]

\* takeMetadata that examines the first param beyond the operands
takeMetadata_atOperands(hp, args, fmtOperands) ==
    IF Len(args) > fmtOperands
    THEN LET metadataParam == args[fmtOperands + 1]
             md == IF IsStringMap(metadataParam) THEN metadataFromStrings(hp, metadataParam.a)
                   ELSE IF IsRawMap(metadataParam) THEN metadataFromRaw(hp, metadataParam.a)
                   ELSE NoMetadata(hp)
         IN [heap |-> md.heap,
             params |-> SubSeq(args, 1, fmtOperands)
                            \o SubSeq(args, fmtOperands + 2, Len(args)),
             metadata |-> md.metadata, rawMetadata |-> md.rawMetadata]
    ELSE [heap |-> hp, params |-> args, metadata |-> NilMap, rawMetadata |-> NilMap]

\* takeMetadata that leaves the last param in params
takeMetadata_keepsParam(hp, args, fmtOperands) ==
    IF Len(args) > fmtOperands
    THEN LET metadataParam == args[Len(args)]
             md == IF IsStringMap(metadataParam) THEN metadataFromStrings(hp, metadataParam.a)
                   ELSE IF IsRawMap(metadataParam) THEN metadataFromRaw(hp, metadataParam.a)
                   ELSE NoMetadata(hp)
         IN [heap |-> md.heap, params |-> args,
             metadata |-> md.metadata, rawMetadata |-> md.rawMetadata]
    ELSE [heap |-> hp, params |-> args, metadata |-> NilMap, rawMetadata |-> NilMap]

\* if len(params) > fmtOperands: the last param leaves params and, if it is a
\* map, becomes the metadata
takeMetadata(hp, args, fmtOperands) ==
    IF Len(args) > fmtOperands
    THEN LET metadataParam == args[Len(args)]
             md == IF IsStringMap(metadataParam) THEN metadataFromStrings(hp, metadataParam.a)
                   ELSE IF IsRawMap(metadataParam) THEN metadataFromRaw(hp, metadataParam.a)
                   ELSE NoMetadata(hp)
         IN [heap |-> md.heap, params |-> SubSeq(args, 1, Len(args) - 1),
             metadata |-> md.metadata, rawMetadata |-> md.rawMetadata]
    ELSE [heap |-> hp, params |-> args, metadata |-> NilMap, rawMetadata |-> NilMap]

\* a provider loop that ranges over params[1:]
RECURSIVE provideMetadata_fromSecond(_, _, _, _)
provideMetadata_fromSecond(hp, args, i, metadata) ==
    IF i + 1 > Len(args) THEN [heap |-> hp, addr |-> metadata]
    ELSE IF ~IsProvider(args[i + 1]) THEN provideMetadata_fromSecond(hp, args, i + 1, metadata)
    ELSE LET m == mergeMetadata(hp, metadata, args[i + 1].a)
         IN provideMetadata_fromSecond(m.heap, args, i + 1, m.addr)

\* for _, param := range params: merge the LogMetadata() of every provider
RECURSIVE provideMetadata(_, _, _, _)
provideMetadata(hp, args, i, metadata) ==
    IF i > Len(args) THEN [heap |-> hp, addr |-> metadata]
    ELSE IF ~IsProvider(args[i]) THEN provideMetadata(hp, args, i + 1, metadata)
    ELSE LET m == mergeMetadata(hp, metadata, args[i].a)
         IN provideMetadata(m.heap, args, i + 1, m.addr)

\* Eventf after the id is there: the metadata of the arguments, the message
buildEvent(hp, sev, ctx, msg, args) ==
    IF Len(args) = 0
    THEN [heap |-> hp, event |-> NewEvent(ctx, sev, Text(msg), NilMap, NilMap)]
    ELSE LET fmtOperands == countFmtOperands(msg)
         IN IF Len(args) = 1 /\ fmtOperands = 0 /\ IsError(args[1])
            THEN createErrorEvent(hp, ctx, sev, msg, args[1])
            ELSE LET t == takeMetadata(hp, args, fmtOperands)
                     p == provideMetadata(t.heap, t.params, 1, t.metadata)
                     message == IF fmtOperands > 0 THEN Sprintf(p.heap, msg, t.params)
                                ELSE Text(msg)
                 IN [heap |-> p.heap,
                     event |-> NewEvent(ctx, sev, message, p.addr, t.rawMetadata)]

\* an Eventf that goes on without an id
Eventf_ignoresIdError(hp, sev, ctx, msg, args, idFails) ==
    buildEvent(hp, sev, IF ctx = NilCtx THEN Background ELSE ctx, msg, args)

\* Eventf(sev, ctx, msg, params...); idFails: uuid.NewV4() returns an error
Eventf(hp, sev, ctx, msg, args, idFails) ==
    LET ctx1 == IF ctx = NilCtx THEN Background ELSE ctx
    IN IF idFails THEN [heap |-> hp, event |-> ZeroEvent]
       ELSE buildEvent(hp, sev, ctx1, msg, args)

\* the argument lists of a call
ArgLists == UNION { [1 .. n -> ArgValues] : n \in 0 .. MaxArgs }

\* a call of Eventf is about to run, on a context tree of a root and its child
InitEvent ==
    /\ nodes = TreeOf(<<0, 1>>)
    /\ heap = [a \in {InputAddr(i) : i \in 1 .. Len(nodes)} |-> ConcBindings[a[2]]]
    /\ ret = NilMap
    /\ retCtx = NoCall
    /\ nmut = 0
    /\ gor = << >>
    /\ lockW = << >>
    /\ lockR = << >>
    /\ pendW = << >>
    /\ \E sev \in Severities, ctx \in CtxOf(nodes), msg \in Templates, args \in ArgLists,
          idFails \in BOOLEAN :
          call = [pc |-> "called", sev |-> sev, ctx |-> ctx, msg |-> msg, params |-> args,
                  idFails |-> idFails]
    /\ event = ZeroEvent
    /\ eheap = ArgMaps
    /\ wire = NoWire
    /\ scan = NoScan
    /\ defaultLogger = NoLogger
    /\ inMemory = NoInMemory
    /\ eager = NoEager

\* the call runs and returns its Event
EventfCall ==
    /\ call.pc = "called"
    /\ LET r == Eventf(eheap, call.sev, call.ctx, call.msg, call.params, call.idFails)
       IN /\ event' = r.event
          /\ eheap' = r.heap
    /\ call' = [call EXCEPT !.pc = "returned"]
    /\ UNCHANGED <<nodes, heap, pvars, cvars, wire, scan, lvars>>

\* the Eventf that keeps one Metadata map of interface{} values
\* stringMapToInterfaceMap(m): a new map, at address a, with the entries of m
stringMapToInterfaceMap(hp, a, m) ==
    [heap |-> Put(hp, a, [k \in DOMAIN MapAt(hp, m) |-> StrVal(MapAt(hp, m)[k])]),
     addr |-> a]

\* the shim stringMapToInterfaceMap makes for the i-th param, 0 for the last
ShimAddr(i) == <<"shim", i>>

\* mergeMetadata(current, new) over maps of interface{} values
olderMergeMetadata(hp, current, new) ==
    IF DOMAIN MapAt(hp, new) = {} THEN [heap |-> hp, addr |-> current]
    ELSE LET c == IF current = NilMap THEN MakeMap(hp, RawAddr)
                  ELSE [heap |-> hp, addr |-> current]
         IN [heap |-> [c.heap EXCEPT ![c.addr] = Overlay(MapAt(c.heap, new), @)],
             addr |-> c.addr]

\* if len(params) > fmtOperands: the last param leaves params and, if it is a
\* map, is merged into the metadata
olderTakeMetadata(hp, args, fmtOperands) ==
    IF Len(args) > fmtOperands
    THEN LET metadataParam == args[Len(args)]
             md == IF IsStringMap(metadataParam)
                   THEN LET shim == stringMapToInterfaceMap(hp, ShimAddr(0), metadataParam.a)
                        IN olderMergeMetadata(shim.heap, NilMap, shim.addr)
                   ELSE IF IsRawMap(metadataParam)
                   THEN olderMergeMetadata(hp, NilMap, metadataParam.a)
                   ELSE [heap |-> hp, addr |-> NilMap]
         IN [heap |-> md.heap, params |-> SubSeq(args, 1, Len(args) - 1),
             metadata |-> md.addr]
    ELSE [heap |-> hp, params |-> args, metadata |-> NilMap]

\* for _, param := range params: merge a shim of every provider's LogMetadata()
RECURSIVE olderProvideMetadata(_, _, _, _)
olderProvideMetadata(hp, args, i, metadata) ==
    IF i > Len(args) THEN [heap |-> hp, addr |-> metadata]
    ELSE IF ~IsProvider(args[i]) THEN olderProvideMetadata(hp, args, i + 1, metadata)
    ELSE LET shim == stringMapToInterfaceMap(hp, ShimAddr(i), args[i].a)
             m == olderMergeMetadata(shim.heap, metadata, shim.addr)
         IN olderProvideMetadata(m.heap, args, i + 1, m.addr)

\* Eventf(sev, ctx, msg, params...) of the older version
olderEventf(hp, sev, ctx, msg, args, idFails) ==
    LET ctx1 == IF ctx = NilCtx THEN Background ELSE ctx
    IN IF idFails THEN [heap |-> hp, event |-> ZeroEvent]
       ELSE IF Len(args) = 0
       THEN [heap |-> hp, event |-> NewEvent(ctx1, sev, Text(msg), NilMap, NilMap)]
       ELSE LET fmtOperands == countFmtOperands(msg)
                t == olderTakeMetadata(hp, args, fmtOperands)
                p == olderProvideMetadata(t.heap, t.params, 1, t.metadata)
                message == IF fmtOperands > 0 THEN Sprintf(p.heap, msg, t.params)
                           ELSE Text(msg)
            IN [heap |-> p.heap, event |-> NewEvent(ctx1, sev, message, p.addr, NilMap)]

\* the call runs in the older version and returns its Event
OlderEventfCall ==
    /\ call.pc = "called"
    /\ LET r == olderEventf(eheap, call.sev, call.ctx, call.msg, call.params, call.idFails)
       IN /\ event' = r.event
          /\ eheap' = r.heap
    /\ call' = [call EXCEPT !.pc = "returnedOlder"]
    /\ UNCHANGED <<nodes, heap, pvars, cvars, wire, scan, lvars>>

NextEvent == EventfCall

SpecEvent == InitEvent /\ [][NextEvent]_vars

\* the call runs either variant of Eventf
NextEventBoth == EventfCall \/ OlderEventfCall

SpecEventBoth == InitEvent /\ [][NextEventBoth]_vars

\* ---------------------------------------------------------------- wire errors
\* an error is about to be encoded, or a wrapper has come over the wire
InitWire ==
    /\ nodes = << >>
    /\ heap = << >>
    /\ ret = NilMap
    /\ retCtx = NoCall
    /\ nmut = 0
    /\ gor = << >>
    /\ lockW = << >>
    /\ lockR = << >>
    /\ pendW = << >>
    /\ call = NoEventCall
    /\ event = ZeroEvent
    /\ eheap = << >>
    /\ scan = NoScan
    /\ defaultLogger = NoLogger
    /\ inMemory = NoInMemory
    /\ eager = NoEager
    /\ \/ \E e \in InputErrors :
             wire = [pc |-> "error", input |-> e, wrapper |-> NoWrapper,
                     wireErr |-> NoWireError, decoded |-> NilError, problem |-> NoProblem]
       \/ \E w \in Wrappers :
             wire = [pc |-> "wrapper", input |-> NoInput, wrapper |-> w,
                     wireErr |-> NoWireError, decoded |-> NilError, problem |-> NoProblem]

\* wireErr, err := newWireError(inputErr); serialized, err := json.Marshal(wireErr)
Encode ==
    /\ wire.pc = "error"
    /\ LET r == newWireError(wire.input)
       IN wire' = [wire EXCEPT !.pc = "wrapper", !.wrapper = Marshal(r.wire)]
    /\ UNCHANGED <<nodes, heap, pvars, cvars, evars, scan, lvars>>

\* wireErrDe, err := NewWireErrorFromWrapper(serialized)
FromWrapper ==
    /\ wire.pc = "wrapper"
    /\ LET r == NewWireErrorFromWrapper(wire.wrapper)
       IN wire' = [wire EXCEPT !.pc = IF r.ok THEN "wire" ELSE "failed",
                               !.wireErr = r.wire, !.problem = r.err]
    /\ UNCHANGED <<nodes, heap, pvars, cvars, evars, scan, lvars>>

\* err, problem := wireErrDe.Decode()
DecodeWire ==
    /\ wire.pc = "wire"
    /\ LET r == Decode(wire.wireErr)
       IN wire' = [wire EXCEPT !.pc = "decoded", !.decoded = r.err, !.problem = r.problem]
    /\ UNCHANGED <<nodes, heap, pvars, cvars, evars, scan, lvars>>

NextWire == Encode \/ FromWrapper \/ DecodeWire

SpecWire == InitWire /\ [][NextWire]_vars

\* ---------------------------------------------------------------- templates
MaxLen == 3           \* the length of the templates of any characters
MaxDirectives == 3    \* the directives of a template made of directives

\* the cases of TestCountFmtOperands: a template and its operands
Case(template, operands) == [template |-> template, operands |-> operands]
TestCases ==
    {
      Case(<<"%", "%">>, 0),
      Case(<<"%", "%", "s">>, 0),
      Case(<<"%", "v">>, 1),
      Case(<<"%", "#", "v">>, 1),
      Case(<<"%", "T">>, 1),
      Case(<<"%", "t">>, 1),
      Case(<<"%", "c">>, 1),
      Case(<<"%", "d">>, 1),
      Case(<<"%", "o">>, 1),
      Case(<<"%", "O">>, 1),
      Case(<<"%", "U">>, 1),
      Case(<<"%", "b">>, 1),
      Case(<<"%", "e">>, 1),
      Case(<<"%", "E">>, 1),
      Case(<<"%", "f">>, 1),
      Case(<<"%", "F">>, 1),
      Case(<<"%", "g">>, 1),
      Case(<<"%", "G">>, 1),
      Case(<<"%", "s">>, 1),
      Case(<<"%", "q">>, 1),
      Case(<<"%", "x">>, 1),
      Case(<<"%", "X">>, 1),
      Case(<<"%", "p">>, 1),
      Case(<<"%", "9", "f">>, 1),
      Case(<<"%", ".", "2", "f">>, 1),
      Case(<<"%", "9", ".", "2", "f">>, 1),
      Case(<<"%", "9", ".", "f">>, 1),
      Case(<<"%", " ", "d">>, 1),
      Case(<<"%", "0", "9", "d">>, 1),
      Case(<<"%", "%", "s", " ", "%", "s", " ", "%", "s">>, 2),
      Case(<<"%", "6", ".", "2", "f">>, 1),
      Case(<<"%", "d", " ", "%", "d", " ", "%", "#", "[", "1", "]", "x", " ", "%", "#", "x">>, 2),
      Case(<<"%", "d", " ", "%", "d", " ", "%", "d", " ", "%", "[", "1", "]", "d", " ", "%", "d", " ", "%", "[", "3", "]", "x", " ", "%", "d", " ", "%", "d", " ", "%", "x">>, 6),
      Case(<<"%", "s", " ", "%", "%", " ", "%", "%", "s", " ", "%", "s">>, 2),
      Case(<<"%", "s", " ", "%", "s">>, 2),
      Case(<<"%", "s", " ", "%", "s", " ", "%", "d">>, 3),
      Case(<<"%", "[", "2", "]", "d", " ", "%", "[", "1", "]", "d">>, 2),
      Case(<<"%", "[", "3", "]", "*", ".", "[", "2", "]", "*", "[", "1", "]", "f">>, 3),
      Case(<<"%", "[", "3", "]", "*", ".", "[", "2", "]", "*", "[", "1", "]", "f", " ", "%", "[", "3", "]", "*", ".", "[", "2", "]", "*", "[", "1", "]", "f", " ", "%", "s">>, 3) }

\* the characters of the templates that are scanned whatever they hold
ScanChars == {"%", "d", "[", "]", "1", "2", "*", "."}
RawTemplates == UNION { [1..n -> ScanChars] : n \in 0..MaxLen }

\* a directive "%[wi]*.[pi]*[i]v": wstar and pstar say whether it has a "*"
\* width and a "*" precision, widx, pidx and idx are the explicit indexes in
\* front of them and of the verb, 0 for none
Directive(widx, wstar, pidx, pstar, idx, verb) ==
    [widx |-> widx, wstar |-> wstar, pidx |-> pidx, pstar |-> pstar, idx |-> idx,
     verb |-> verb]
Percent == Directive(0, FALSE, 0, FALSE, 0, "%")
Directives ==
    { Percent,
      Directive(0, FALSE, 0, FALSE, 0, "d"),
      Directive(0, FALSE, 0, FALSE, 1, "d"),
      Directive(0, FALSE, 0, FALSE, 2, "d"),
      Directive(0, FALSE, 0, FALSE, 3, "x"),
      Directive(0, TRUE, 0, FALSE, 0, "d"),
      Directive(0, FALSE, 0, TRUE, 0, "f"),
      Directive(2, TRUE, 0, FALSE, 0, "d"),
      Directive(3, TRUE, 2, TRUE, 1, "f") }
DirectiveLists == UNION { [1..n -> Directives] : n \in 1..MaxDirectives }

\* the text "[i]" of an explicit index, nothing for 0
IndexText(i) == IF i = 0 THEN << >> ELSE <<"[", Digits[i + 1], "]">>

\* the text of one directive
DirectiveText(d) ==
    <<"%">> \o (IF d.wstar THEN IndexText(d.widx) \o <<"*">> ELSE << >>)
            \o (IF d.pstar THEN <<".">> \o IndexText(d.pidx) \o <<"*">> ELSE << >>)
            \o IndexText(d.idx) \o <<d.verb>>

\* the template of the directives ds, a space between two of them
RECURSIVE Render(_)
Render(ds) ==
    IF ds = << >> THEN << >>
    ELSE IF Len(ds) = 1 THEN DirectiveText(ds[1])
    ELSE DirectiveText(ds[1]) \o <<" ">> \o Render(Tail(ds))

\* a template is about to be scanned: a case of the test, any short string
\* or the text of some directives
InitScan ==
    /\ nodes = << >>
    /\ heap = << >>
    /\ ret = NilMap
    /\ retCtx = NoCall
    /\ nmut = 0
    /\ gor = << >>
    /\ lockW = << >>
    /\ lockR = << >>
    /\ pendW = << >>
    /\ call = NoEventCall
    /\ event = ZeroEvent
    /\ eheap = << >>
    /\ wire = NoWire
    /\ defaultLogger = NoLogger
    /\ inMemory = NoInMemory
    /\ eager = NoEager
    /\ \/ \E c \in TestCases :
             scan = [pc |-> "template", template |-> c.template, directives |-> << >>,
                     expected |-> c.operands, n |-> 0]
       \/ \E t \in RawTemplates :
             scan = [pc |-> "template", template |-> t, directives |-> << >>,
                     expected |-> -1, n |-> 0]
       \/ \E ds \in DirectiveLists :
             scan = [pc |-> "template", template |-> Render(ds), directives |-> ds,
                     expected |-> -1, n |-> 0]

\* n := countFmtOperands(template)
Count ==
    /\ scan.pc = "template"
    /\ scan' = [scan EXCEPT !.pc = "counted", !.n = countFmtOperands(scan.template)]
    /\ UNCHANGED <<nodes, heap, pvars, cvars, evars, wire, lvars>>

NextScan == Count

SpecScan == InitScan /\ [][NextScan]_vars

\* ---------------------------------------------------------------- default logger
MaxCalls == 3         \* calls of Trace ... Critical per behaviour

\* the functions Trace ... Critical and the severity each stands for
Functions == {"Trace", "Debug", "Info", "Warn", "Error", "Critical"}
SeverityOf ==
    [Trace |-> TraceSeverity, Debug |-> DebugSeverity, Info |-> InfoSeverity,
     Warn |-> WarnSeverity, Error |-> ErrorSeverity, Critical |-> CriticalSeverity]

\* the loggers of the tests: none, a testLogLogger or a testLogLeveledLogger
LoggerKinds == {"nil", "plain", "leveled"}

\* the templates and the arguments of the calls
LogTemplates == {<<"m">>, <<"m", "%", "v">>}
LogArgs == <<StrVal("foo")>>

logItem(sev, msg, args) == [Severity |-> sev, OriginalMessage |-> msg, Params |-> args]

\* testLogLeveledLogger.Trace ... Critical: the method called name keeps an
\* item of its own severity
LeveledMethod(l, name, msg, args) ==
    [l EXCEPT !.items = Append(@, logItem(SeverityOf[name], msg, args))]

\* testLogLeveledLogger.Log(evs...): fails the test
LeveledLog(l, ev) == [l EXCEPT !.failed = TRUE]

\* testLogLogger.Log(evs...)
PlainLog(l, ev) == [l EXCEPT !.events = Append(@, ev)]

\* a dispatch that builds an Event for every logger
dispatch_alwaysLog(l, name, msg, args, ev) ==
    IF l.kind = "nil" THEN l
    ELSE IF l.kind = "leveled" THEN LeveledLog(l, ev)
    ELSE PlainLog(l, ev)

\* the body of the function called name: no logger, nothing; a leveled
\* logger, its method of the same name; any other logger, Log of the Event ev
dispatch(l, name, msg, args, ev) ==
    IF l.kind = "nil" THEN l
    ELSE IF l.kind = "leveled" THEN LeveledMethod(l, name, msg, args)
    ELSE PlainLog(l, ev)

\* SetDefaultLogger(logger) has been called with one of the loggers
InitLog ==
    /\ nodes = << >>
    /\ heap = << >>
    /\ ret = NilMap
    /\ retCtx = NoCall
    /\ nmut = 0
    /\ gor = << >>
    /\ lockW = << >>
    /\ lockR = << >>
    /\ pendW = << >>
    /\ call = NoEventCall
    /\ event = ZeroEvent
    /\ eheap = << >>
    /\ wire = NoWire
    /\ scan = NoScan
    /\ inMemory = NoInMemory
    /\ eager = NoEager
    /\ \E k \in LoggerKinds : defaultLogger = [NoLogger EXCEPT !.kind = k]

\* the function called name runs with the template msg and LogArgs
Call(name, msg) ==
    /\ Len(defaultLogger.calls) < MaxCalls
    /\ LET r == Eventf(eheap, SeverityOf[name], Background, msg, LogArgs, FALSE)
           l == dispatch(defaultLogger, name, msg, LogArgs, r.event)
       IN defaultLogger' = [l EXCEPT !.calls = Append(@, [name |-> name, msg |-> msg])]
    /\ UNCHANGED <<nodes, heap, pvars, cvars, evars, wire, scan, inMemory, eager>>

Trace == \E msg \in LogTemplates : Call("Trace", msg)
Debug == \E msg \in LogTemplates : Call("Debug", msg)
Info == \E msg \in LogTemplates : Call("Info", msg)
Warn == \E msg \in LogTemplates : Call("Warn", msg)
Error == \E msg \in LogTemplates : Call("Error", msg)
Critical == \E msg \in LogTemplates : Call("Critical", msg)

NextLog == Trace \/ Debug \/ Info \/ Warn \/ Error \/ Critical

SpecLog == InitLog /\ [][NextLog]_vars

\* ---------------------------------------------------------------- InMemoryLogger
MaxLogs == 2          \* Log calls of one goroutine

\* the goroutines that share the logger
Loggers == 1 .. Goroutines

\* the events of the c-th Log call of goroutine g, in argument order
Batch(g, c) == << <<g, c, 1>>, <<g, c, 2>> >>

\* sync.Mutex: Lock() goes on when no goroutine holds the mutex
MutexFree_always == TRUE

MutexFree == inMemory.mutex = NoGoroutine

\* NewInMemoryLogger(), and no goroutine has called it yet
InitMemory ==
    /\ nodes = << >>
    /\ heap = << >>
    /\ ret = NilMap
    /\ retCtx = NoCall
    /\ nmut = 0
    /\ gor = << >>
    /\ lockW = << >>
    /\ lockR = << >>
    /\ pendW = << >>
    /\ call = NoEventCall
    /\ event = ZeroEvent
    /\ eheap = << >>
    /\ wire = NoWire
    /\ scan = NoScan
    /\ defaultLogger = NoLogger
    /\ inMemory = [mutex |-> NoGoroutine, events |-> << >>,
                   pc |-> [g \in Loggers |-> "idle"],
                   evs |-> [g \in Loggers |-> << >>],
                   old |-> [g \in Loggers |-> << >>],
                   logged |-> [g \in Loggers |-> 0],
                   output |-> [g \in Loggers |-> << >>]]
    /\ eager = NoEager

MemoryFrame == UNCHANGED <<nodes, heap, pvars, cvars, evars, wire, scan, defaultLogger, eager>>

\* goroutine g calls l.Log(evs...)
LogCall(g) ==
    /\ inMemory.pc[g] = "idle"
    /\ inMemory.logged[g] < MaxLogs
    /\ inMemory' = [inMemory EXCEPT !.pc[g] = "lock",
                                    !.evs[g] = Batch(g, inMemory.logged[g] + 1)]
    /\ MemoryFrame

\* l.Lock() of Log
LogLock(g) ==
    /\ inMemory.pc[g] = "lock"
    /\ MutexFree
    /\ inMemory' = [inMemory EXCEPT !.pc[g] = "append", !.mutex = g]
    /\ MemoryFrame

\* append(l.events, evs...) reads l.events
LogRead(g) ==
    /\ inMemory.pc[g] = "append"
    /\ inMemory' = [inMemory EXCEPT !.pc[g] = "assign", !.old[g] = inMemory.events]
    /\ MemoryFrame

\* l.events = the slice that was read and evs behind it
LogAssign(g) ==
    /\ inMemory.pc[g] = "assign"
    /\ inMemory' = [inMemory EXCEPT !.pc[g] = "unlock", !.old[g] = << >>,
                                    !.events = inMemory.old[g] \o inMemory.evs[g]]
    /\ MemoryFrame

\* the deferred l.Unlock() of Log; the call returns
LogUnlock(g) ==
    /\ inMemory.pc[g] = "unlock"
    /\ inMemory' = [inMemory EXCEPT !.pc[g] = "idle", !.mutex = NoGoroutine,
                                    !.evs[g] = << >>, !.logged[g] = @ + 1]
    /\ MemoryFrame

\* goroutine g calls l.Events()
EventsCall(g) ==
    /\ inMemory.pc[g] = "idle"
    /\ inMemory' = [inMemory EXCEPT !.pc[g] = "elock"]
    /\ MemoryFrame

\* l.Lock() of Events
EventsLock(g) ==
    /\ inMemory.pc[g] = "elock"
    /\ MutexFree
    /\ inMemory' = [inMemory EXCEPT !.pc[g] = "copy", !.mutex = g]
    /\ MemoryFrame

\* output := make(EventSet, len(l.events)); copy(output, l.events)
EventsCopy(g) ==
    /\ inMemory.pc[g] = "copy"
    /\ inMemory' = [inMemory EXCEPT !.pc[g] = "eunlock", !.output[g] = inMemory.events]
    /\ MemoryFrame

\* the deferred l.Unlock() of Events; the caller takes output
EventsUnlock(g) ==
    /\ inMemory.pc[g] = "eunlock"
    /\ inMemory' = [inMemory EXCEPT !.pc[g] = "idle", !.mutex = NoGoroutine,
                                    !.output[g] = << >>]
    /\ MemoryFrame

Log == \E g \in Loggers : LogCall(g) \/ LogLock(g) \/ LogRead(g) \/ LogAssign(g) \/ LogUnlock(g)
Events == \E g \in Loggers : EventsCall(g) \/ EventsLock(g) \/ EventsCopy(g) \/ EventsUnlock(g)

NextMemory == Log \/ Events

SpecMemory == InitMemory /\ [][NextMemory]_vars

\* ---------------------------------------------------------------- eager WithParams
\* The same calls made on params.go and on the two implementations that
\* flatten when WithParams is called.
RefineNodes == 3      \* WithParams calls per behaviour of SpecRefine

\* a mergeParams in which the keys of a win over those of b
mergeParams_keepsA(a, b) == Overlay(b, a)

\* mergeParams(a, b): a copy of a with every key of b written over it
mergeParams(a, b) == Overlay(Overlay(EmptyMap, a), b)

\* ParamsFromContext(ctx): the map WithParams stored in ctx, a new empty map
\* when there is none; stored[c] is the map stored in context c
ParamsFromContext(stored, ctx) ==
    IF ctx \in 1 .. Len(stored) THEN stored[ctx] ELSE EmptyMap

\* the eager WithParams: the contexts with the new one, which holds the
\* parent's map merged with input
WithParamsMerged(stored, parent, input) ==
    Append(stored, mergeParams(ParamsFromContext(stored, parent), input))

\* p.Set(k, v) of an immutable map: a new map, p is left as it is
Set(p, k, v) == [x \in (DOMAIN p) \cup {k} |-> IF x = k THEN v ELSE p[x]]

\* for k, v := range input { p = p.Set(k, v) }
RECURSIVE setAll(_, _, _)
setAll(p, input, ks) ==
    IF ks = {} THEN p
    ELSE LET k == CHOOSE x \in ks : TRUE
         IN setAll(Set(p, k, input[k]), input, ks \ {k})

\* WithParams over immutable maps: the new node's mergedParams is the
\* parent's, or a new empty map, with the entries of input set
WithParamsImmutable(stored, parent, input) ==
    LET p == IF parent \in 1 .. Len(stored) THEN stored[parent] ELSE EmptyMap
    IN Append(stored, setAll(p, input, DOMAIN input))

\* paramsToBuiltinMap(p): a new map with every entry of p
RECURSIVE paramsToBuiltinMap(_, _)
paramsToBuiltinMap(p, ks) ==
    IF ks = {} THEN EmptyMap
    ELSE LET k == CHOOSE x \in ks : TRUE
         IN Set(paramsToBuiltinMap(p, ks \ {k}), k, p[k])

\* Params(ctx) over immutable maps
ParamsImmutable(stored, ctx) ==
    IF ctx \in 1 .. Len(stored)
    THEN paramsToBuiltinMap(stored[ctx], DOMAIN stored[ctx])
    ELSE EmptyMap

RefineFrame == UNCHANGED <<nmut, cvars, evars, wire, scan, defaultLogger, inMemory>>

\* ctx' := WithParams(parent, m) in each implementation; m is nil or a map
\* the caller has just built and does not write afterwards
RefineWithParams(parent, m, isNil) ==
    /\ Len(nodes) < RefineNodes
    /\ LET a == IF isNil THEN NilMap ELSE InputAddr(Len(nodes) + 1)
           hp == IF isNil THEN heap ELSE Put(heap, a, m)
           r == WithParams(nodes, hp, parent, a)
       IN /\ heap' = r.heap
          /\ nodes' = r.nodes
          /\ eager' = [eager EXCEPT
                          !.merged = WithParamsMerged(@, parent, MapAt(hp, a)),
                          !.immutable = WithParamsImmutable(@, parent, MapAt(hp, a))]
    /\ UNCHANGED <<ret, retCtx>>
    /\ RefineFrame

\* m := Params(ctx) in each implementation
RefineParams(ctx) ==
    /\ LET r == Params(nodes, Compact(heap, Refs(nodes)), ctx)
       IN /\ nodes' = r.nodes
          /\ heap' = r.heap
          /\ ret' = r.ret
          /\ retCtx' = ctx
    /\ eager' = [eager EXCEPT !.ret = ParamsFromContext(eager.merged, ctx),
                              !.builtin = ParamsImmutable(eager.immutable, ctx)]
    /\ RefineFrame

RefineBind ==
    \E parent \in Parents :
        \/ \E m \in Bindings : RefineWithParams(parent, m, FALSE)
        \/ RefineWithParams(parent, EmptyMap, TRUE)
RefineQuery == \E ctx \in Parents : RefineParams(ctx)

NextRefine == RefineBind \/ RefineQuery

SpecRefine == Init /\ [][NextRefine]_vars

\* ---------------------------------------------------------------- claims
\* C1: Params of a context is the binding maps of its chain applied in
\* root-to-leaf order: every key bound on the chain is present and carries the
\* value of the node nearest to the context. It holds of the map the last Params
\* call returned and of the map a call on any context would return.
C1_NearestWins ==
    /\ \A c \in 1 .. Len(nodes) : ParamsValue(nodes, heap, c) = Flatten(nodes, heap, c)
    /\ retCtx # NoCall => MapAt(heap, ret) = Flatten(nodes, heap, retCtx)

\* a Params call on a child of a cached node: the child rebinds k1 and inherits k2
C1_Witness ==
    /\ ret # NilMap
    /\ retCtx \in 1 .. Len(nodes)
    /\ nodes[retCtx].Parent \in 1 .. Len(nodes)
    /\ Cached(nodes, nodes[retCtx].Parent)
    /\ MapAt(heap, nodes[nodes[retCtx].Parent].ChildParams) = [k \in {"k1", "k2"} |-> "a"]
    /\ MapAt(heap, nodes[retCtx].ChildParams) = [k \in {"k1"} |-> "b"]
    /\ heap[ret] = [k \in {"k1", "k2"} |-> IF k = "k1" THEN "b" ELSE "a"]

\* C2: cache transparency: whatever Params calls were made before, on whatever
\* contexts, Params returns the map it returns when no flattening is cached.
C2_CacheTransparent ==
    /\ \A c \in 1 .. Len(nodes) :
          ParamsValue(nodes, heap, c) = ParamsValue(ClearCaches(nodes), heap, c)
    /\ retCtx # NoCall => MapAt(heap, ret) = ParamsValue(ClearCaches(nodes), heap, retCtx)

\* a chain of three contexts, the middle one cached and the root not, and a
\* Params call on the leaf
C2_Witness ==
    /\ Len(nodes) = 3
    /\ ret # NilMap
    /\ \E r, m, l \in 1 .. Len(nodes) :
          /\ nodes[r].Parent = Background /\ nodes[m].Parent = r /\ nodes[l].Parent = m
          /\ ~Cached(nodes, r) /\ Cached(nodes, m) /\ Cached(nodes, l)
          /\ retCtx = l
          /\ heap[ret] # EmptyMap
          /\ heap[ret] # MapAt(heap, nodes[l].ChildParams)

\* a step in which the caller writes to a map it holds
CallerWrites == nmut' # nmut

\* C3: the map Params returned is the caller's: a write to it changes the
\* result of no later Params call, on any context.
C3_ReturnedMapOwned ==
    [][(CallerWrites /\ ret # NilMap /\ heap'[ret] # heap[ret])
        => AllParams(nodes', heap') = AllParams(nodes, heap)]_vars

\* the caller has written to the map returned for a context that has a child
C3_Witness ==
    /\ nmut > 0
    /\ ret # NilMap
    /\ Cached(nodes, retCtx)
    /\ heap[ret] # heap[nodes[retCtx].mergedParams]
    /\ \E d \in 1 .. Len(nodes) : nodes[d].Parent = retCtx

\* a step in which the caller writes to a map it passed to WithParams
InputWritten == CallerWrites /\ \E a \in Inputs : heap'[a] # heap[a]

C5_WithParamsFrame ==
    [][Len(nodes') = Len(nodes) + 1 =>
        /\ \A i \in 1 .. Len(nodes) : nodes'[i] = nodes[i]
        /\ \A c \in Contexts : ParamsValue(nodes', heap', c) = ParamsValue(nodes, heap, c)
        /\ \A a \in DOMAIN heap : heap'[a] = heap[a]]_vars

\* two contexts derived from one parent that has an ancestor-free cached
\* flattening, the second one bound with a map that was already bound
C5_Witness ==
    /\ Len(nodes) = 3
    /\ nodes[2].Parent = 1
    /\ nodes[3].Parent = 1
    /\ Cached(nodes, 1)
    /\ Cached(nodes, 2)
    /\ nodes[3].ChildParams = nodes[2].ChildParams
    /\ nodes[3].ChildParams # NilMap

\* C6: Params of a nil context and of a context without a param node returns
\* an empty map that is not nil.
C6_EmptyNotNil ==
    /\ \A c \in {NilCtx, Background} :
          LET r == Params(nodes, heap, c)
          IN r.ret # NilMap /\ r.heap[r.ret] = EmptyMap /\ r.nodes = nodes
    /\ retCtx \in {NilCtx, Background} =>
          (ret # NilMap /\ heap[ret] = EmptyMap)

\* Params(nil) has returned while contexts with bindings exist
C6_Witness ==
    /\ retCtx = NilCtx
    /\ ret # NilMap
    /\ heap[ret] = EmptyMap
    /\ \E n \in 1 .. Len(nodes) : MapAt(heap, nodes[n].ChildParams) # EmptyMap

\* the Eventf call has returned an Event built with a fresh id
Returned == call.pc = "returned" /\ ~call.idFails
Metadata == MapAt(eheap, event.Metadata)

LastArg == call.params[Len(call.params)]
ExplicitGiven ==
    /\ Len(call.params) > countFmtOperands(call.msg)
    /\ IsStringMap(LastArg) \/ IsRawMap(LastArg)
Explicit ==
    IF IsStringMap(LastArg) THEN ArgMaps[LastArg.a]
    ELSE [k \in DOMAIN ArgMaps[LastArg.a] |-> Sprint(ArgMaps, ArgMaps[LastArg.a][k])]

\* the metadata providers among the other arguments, and the first of them
\* that supplies key k
Providers == { i \in 1 .. Len(call.params) - 1 : IsProvider(call.params[i]) }
Provided(i) == ArgMaps[call.params[i].a]
FirstProvider(k) ==
    CHOOSE i \in Providers :
        /\ k \in DOMAIN Provided(i)
        /\ \A j \in Providers : j < i => k \notin DOMAIN Provided(j)

\* the params the context of the call carries
Ambient == ParamsValue(nodes, heap, call.ctx)

\* C9: with ambient params on the context and an explicit metadata map, a key
\* of both carries the explicit value and every ambient key that the explicit
\* map lacks is in the metadata with its ambient value.
C9_AmbientOverlay ==
    (Returned /\ DOMAIN Ambient # {} /\ ExplicitGiven /\ Providers = {}) =>
        \A k \in DOMAIN Ambient :
            /\ k \in DOMAIN Metadata
            /\ Metadata[k] = IF k \in DOMAIN Explicit THEN Explicit[k] ELSE Ambient[k]

\* C10: with an explicit trailing metadata map and an argument implementing
\* LogMetadata(), every key of the explicit map carries the explicit value, and
\* every provider key the explicit map lacks is added with the value of the
\* first provider that supplies it.
C10_ExplicitOverProvider ==
    (Returned /\ ExplicitGiven /\ Providers # {}) =>
        /\ \A k \in DOMAIN Explicit : k \in DOMAIN Metadata /\ Metadata[k] = Explicit[k]
        /\ \A i \in Providers : \A k \in DOMAIN Provided(i) \ DOMAIN Explicit :
              k \in DOMAIN Metadata /\ Metadata[k] = Provided(FirstProvider(k))[k]

\* Eventf(sev, ctx, "m", provider{k1, k2}, map[string]string{"k1": "explicit"})
\* has returned
C10_Witness ==
    /\ Returned
    /\ call.params = <<ProvVal(<<"prov", 1>>), SMapVal(<<"smap", 1>>)>>
    /\ Metadata = [k \in {"k1", "k2"} |-> IF k = "k1" THEN "explicit" ELSE "provided"]

\* the operands of the template, and the arguments left for formatting and for
\* the providers once the last of more than Operands arguments is taken off
Operands == countFmtOperands(call.msg)
Remaining ==
    IF Len(call.params) > Operands THEN SubSeq(call.params, 1, Len(call.params) - 1)
    ELSE call.params
ErrorCase == Len(call.params) = 1 /\ Operands = 0 /\ IsError(call.params[1])

\* the entry k of the metadata comes from the explicit map, from the error of
\* the short-circuit, from the ambient params or from a provider at one of
\* the positions `at`
EntryFrom(k, at) ==
    \/ ExplicitGiven /\ k \in DOMAIN Explicit /\ Metadata[k] = Explicit[k]
    \/ ErrorCase /\ k = "error" /\ Metadata[k] = call.params[1].s
    \/ k \in DOMAIN Ambient /\ Metadata[k] = Ambient[k]
    \/ \E i \in at :
          /\ IsProvider(call.params[i])
          /\ k \in DOMAIN ArgMaps[call.params[i].a]
          /\ Metadata[k] = ArgMaps[call.params[i].a][k]

C12_OperandProvider ==
    (Returned /\ Operands = 1 /\ Len(call.params) = 1 /\ IsProvider(call.params[1])) =>
        /\ event.Message = Sprintf(ArgMaps, call.msg, call.params)
        /\ event.Metadata # NilMap
        /\ Metadata = ArgMaps[call.params[1].a]

\* Eventf(sev, ctx, "m%v", provider{k1, k2}) has returned
C12_Witness ==
    /\ Returned
    /\ call.msg = <<"m", "%", "v">>
    /\ call.params = <<ProvVal(<<"prov", 1>>)>>
    /\ event.Message = "mmap[k1:provided k2:provided]"
    /\ Metadata = [k \in {"k1", "k2"} |-> "provided"]

IsMapVal(v) == IsStringMap(v) \/ IsRawMap(v)
Stringified(v) ==
    IF IsStringMap(v) THEN ArgMaps[v.a]
    ELSE [k \in DOMAIN ArgMaps[v.a] |-> Sprint(ArgMaps, ArgMaps[v.a][k])]
\* args without the one at position i
Without(args, i) == SubSeq(args, 1, i - 1) \o SubSeq(args, i + 1, Len(args))
ProvidersLeft == { i \in 1 .. Len(Remaining) : IsProvider(Remaining[i]) }
RawMetadata == MapAt(eheap, event.RawMetadata)

C14_ExtraArgumentKept ==
    (Returned /\ Operands > 0 /\ Len(call.params) = Operands + 1
        /\ ~IsMapVal(LastArg) /\ LastArg # NilVal) =>
        event.Message = Sprintf(ArgMaps, call.msg, call.params)

\* C15: nil arguments beyond the operands leave no trace: the message is the
\* template formatted with the operands alone, and without a provider among
\* them the metadata is nil.
C15_NilDropped ==
    (Returned /\ Len(call.params) > Operands
        /\ \A i \in (Operands + 1) .. Len(call.params) : call.params[i] = NilVal) =>
        /\ event.Message = IF Operands > 0
                           THEN Sprintf(ArgMaps, call.msg, SubSeq(call.params, 1, Operands))
                           ELSE Text(call.msg)
        /\ (\A i \in 1 .. Operands : ~IsProvider(call.params[i])) => event.Metadata = NilMap

\* C16: Message is the template with its verbs substituted from the reduced
\* argument list whenever the template has an operand, also with fewer
\* arguments than operands or none; without operands it is the template.
C16_MessageFormatted ==
    (Returned /\ ~ErrorCase) =>
        event.Message = IF Operands > 0 THEN Sprintf(ArgMaps, call.msg, Remaining)
                        ELSE Text(call.msg)

\* C17: when the merged metadata has no entries, Metadata and RawMetadata are
\* nil, never empty maps.
C17_AbsentMetadataIsNil ==
    (Returned /\ DOMAIN Metadata = {}) =>
        event.Metadata = NilMap /\ event.RawMetadata = NilMap

\* C18: Metadata and RawMetadata of every Event have the same keys.
C18_SameKeys ==
    call.pc = "returned" => DOMAIN Metadata = DOMAIN RawMetadata

\* C19: when the id cannot be generated Eventf returns the zero Event, its Id
\* empty, for every severity, context, template and argument list, and builds
\* no map.
C19_DegradedEvent ==
    (call.pc = "returned" /\ call.idFails) =>
        /\ event.Id = ""
        /\ event = ZeroEvent
        /\ eheap = ArgMaps

\* Eventf(sev, ctx, "m", errors.New("boom")) has returned without an id
C19_Witness ==
    /\ call.pc = "returned"
    /\ call.idFails
    /\ call.msg = <<"m">>
    /\ call.params = <<ErrVal("boom")>>
    /\ event.Id = ""
    /\ event.Metadata = NilMap

\* C20: Decode of a WireError whose type is neither "simple" nor "terror", the
\* empty type of a wrapper without a type field included, returns a nil error
\* and a problem.
C20_UnknownTypeFails ==
    (wire.pc = "decoded" /\ wire.wireErr.Typ \notin {WireErrorTypeSimple, WireErrorTypeTerror}) =>
        /\ wire.decoded = NilError
        /\ wire.problem # NoProblem

\* a wrapper without a type field, its data "boom", has been decoded
C20_Witness ==
    /\ wire.pc = "decoded"
    /\ wire.wrapper = Wrapper(TRUE, Field("absent", ""), Field("string", Plain("boom")))
    /\ wire.wireErr.Typ = ""
    /\ wire.decoded = NilError
    /\ wire.problem = "unknown wire error type"

\* an error was encoded, sent, received and decoded
RoundTrip == wire.input # NoInput /\ wire.pc = "decoded"

\* the error e with every string as json.Marshal writes it
Coerced(e) ==
    IF e.kind = "terror"
    THEN TerrorError(ToValidUTF8(e.code), ToValidUTF8(e.message),
                     [k \in DOMAIN e.params |-> ToValidUTF8(e.params[k])])
    ELSE SimpleError(Plain(ToValidUTF8(ErrorString(e).text)))

\* C21 as stated: newWireError, json.Marshal, NewWireErrorFromWrapper and
\* Decode in a row succeed, and give for a *terrors.Error an error of type
\* terror equal to the original, and for any other error a simple error whose
\* message equals the original's display string exactly.
C21_RoundTripExact ==
    wire.input # NoInput =>
        /\ wire.pc # "failed"
        /\ RoundTrip =>
              /\ wire.problem = NoProblem
              /\ IF wire.input.kind = "terror"
                 THEN wire.decoded = wire.input
                 ELSE /\ wire.decoded.kind = "simple"
                      /\ wire.decoded.msg = ErrorString(wire.input)

\* C21 amended: the round trip succeeds and gives a terror with the original's
\* code, message and params, or a simple error with the original's display
\* string, in both cases with every byte that is no valid UTF-8 replaced by
\* U+FFFD; the result equals the original when its strings are valid UTF-8.
C21_RoundTripValidUTF8 ==
    wire.input # NoInput =>
        /\ wire.pc # "failed"
        /\ RoundTrip =>
              /\ wire.problem = NoProblem
              /\ wire.decoded = Coerced(wire.input)
              /\ wire.input.kind = "terror" => wire.decoded.kind = "terror"
              /\ wire.input.kind # "terror" => wire.decoded.kind = "simple"
              /\ (wire.input.kind = "terror" /\ Coerced(wire.input) = wire.input) =>
                    wire.decoded = wire.input
              /\ (wire.input.kind # "terror" /\ Coerced(wire.input).msg = ErrorString(wire.input)) =>
                    wire.decoded.msg = ErrorString(wire.input)

C21_Witness ==
    /\ RoundTrip
    /\ wire.input = TerrorError("bad_request.code", "unique-message", [k \in {"key"} |-> "value"])
    /\ wire.wireErr.Typ = WireErrorTypeTerror
    /\ wire.decoded = wire.input
    /\ wire.problem = NoProblem

\* the highest argument position, counted from 1, that the directives ds refer
\* to when the running position is pos and the highest so far is high
RECURSIVE HighestFrom(_, _, _)
HighestFrom(ds, pos, high) ==
    IF ds = << >> THEN high
    ELSE LET d == ds[1]
             wpos == IF d.widx > 0 THEN d.widx ELSE pos
             afterW == IF d.wstar THEN wpos + 1 ELSE pos
             highW == IF d.wstar THEN Max(high, wpos) ELSE high
             ppos == IF d.pidx > 0 THEN d.pidx ELSE afterW
             afterP == IF d.pstar THEN ppos + 1 ELSE afterW
             highP == IF d.pstar THEN Max(highW, ppos) ELSE highW
             vpos == IF d.idx > 0 THEN d.idx ELSE afterP
         IN IF d = Percent THEN HighestFrom(Tail(ds), pos, high)
            ELSE HighestFrom(Tail(ds), vpos + 1, Max(highP, vpos))

Highest(ds) == HighestFrom(ds, 1, 0)

\* C22: countFmtOperands(template) is the highest argument position, counted
\* from 1, that a directive of the template refers to: a directive without an
\* index uses the running position, an index [n] sets the position to n and
\* what follows goes on from n+1, a "*" width or precision uses one position
\* and "%%" none; the examples of the claim and the cases of the test have the
\* stated results, and the result is never negative.
C22_HighestPosition ==
    scan.pc = "counted" =>
        /\ scan.n >= 0
        /\ scan.directives # << >> => scan.n = Highest(scan.directives)
        /\ scan.expected >= 0 => scan.n = scan.expected
        /\ scan.template = <<"%", "%">> => scan.n = 0
        /\ scan.template = <<"%", "%", "s">> => scan.n = 0
        /\ scan.template = <<"%", "v">> => scan.n = 1
        /\ scan.template = Render(<<Directive(0, FALSE, 0, FALSE, 0, "d"),
                                    Directive(0, FALSE, 0, FALSE, 0, "d"),
                                    Directive(0, FALSE, 0, FALSE, 1, "d")>>) => scan.n = 2
        /\ scan.template = Render(<<Directive(0, FALSE, 0, FALSE, 2, "d"),
                                    Directive(0, FALSE, 0, FALSE, 1, "d")>>) => scan.n = 2
        /\ scan.template = Render(<<Directive(3, TRUE, 2, TRUE, 1, "f")>>) => scan.n = 3
        /\ (scan.expected = 6 /\ Len(scan.template) = 32) => scan.n = 6

\* countFmtOperands("%d %d %[1]d") has returned 2
C22_Witness ==
    /\ scan.pc = "counted"
    /\ scan.template = <<"%", "d", " ", "%", "d", " ", "%", "[", "1", "]", "d">>
    /\ scan.directives # << >>
    /\ scan.n = 2

\* C23: when the default logger is leveled, every call of Trace ... Critical
\* has invoked the logger's method of the same name once, in the order of the
\* calls and with the template as it was passed, and Log was never invoked.
C23_LeveledFastPath ==
    defaultLogger.kind = "leveled" =>
        /\ ~defaultLogger.failed
        /\ defaultLogger.events = << >>
        /\ Len(defaultLogger.items) = Len(defaultLogger.calls)
        /\ \A i \in 1 .. Len(defaultLogger.calls) :
              defaultLogger.items[i] =
                  logItem(SeverityOf[defaultLogger.calls[i].name],
                          defaultLogger.calls[i].msg, LogArgs)

\* Warn, Trace and Error were called on a leveled logger, in that order
C23_Witness ==
    /\ defaultLogger.kind = "leveled"
    /\ defaultLogger.calls = << [name |-> "Warn", msg |-> <<"m", "%", "v">>],
                                [name |-> "Trace", msg |-> <<"m">>],
                                [name |-> "Error", msg |-> <<"m", "%", "v">>] >>
    /\ defaultLogger.items[1] = logItem(WarnSeverity, <<"m", "%", "v">>, LogArgs)
    /\ defaultLogger.items[2].Severity = TraceSeverity
    /\ defaultLogger.items[3].Severity = ErrorSeverity
    /\ ~defaultLogger.failed

\* the places of the event e in the slice out
Places(out, e) == {i \in 1 .. Len(out) : out[i] = e}

\* C24: what Events() returns holds every event of every completed Log call
\* once, the events of one call side by side in argument order, and the calls
\* of one goroutine in the order they were made.
C24_EventsComplete ==
    \A g \in DOMAIN inMemory.pc :
        inMemory.pc[g] = "eunlock" =>
            LET out == inMemory.output[g]
            IN /\ \A h \in Loggers : \A c \in 1 .. inMemory.logged[h] :
                     \A k \in 1 .. Len(Batch(h, c)) :
                        Cardinality(Places(out, Batch(h, c)[k])) = 1
               /\ \A i \in 1 .. Len(out) : out[i][2] <= inMemory.logged[out[i][1]]
               /\ \A i \in 1 .. Len(out) :
                     out[i][3] < Len(Batch(out[i][1], out[i][2])) =>
                        /\ i < Len(out)
                        /\ out[i + 1] = <<out[i][1], out[i][2], out[i][3] + 1>>
               /\ \A i, j \in 1 .. Len(out) :
                     (i < j /\ out[i][1] = out[j][1]) => out[i][2] <= out[j][2]

\* Events() of goroutine 1 returns the calls of both goroutines interleaved
C24_Witness ==
    /\ inMemory.pc # << >>
    /\ inMemory.pc[1] = "eunlock"
    /\ inMemory.logged[1] = 1
    /\ inMemory.logged[2] = 2
    /\ inMemory.output[1] = Batch(2, 1) \o Batch(1, 1) \o Batch(2, 2)

\* C25: a node's mergedParams goes only from unset to set: it is assigned
\* only while unset and only by the Params call on the node's own context,
\* once set neither the slot nor the map in it changes, whatever calls follow
\* on the node, a descendant or an ancestor, and the map that is set is the
\* node's nearest-wins flattening.
C25_CacheSetOnce ==
    /\ [](\A n \in 1 .. Len(nodes) :
            nodes[n].mergedParams # NilMap =>
                MapAt(heap, nodes[n].mergedParams) = Flatten(nodes, heap, n))
    /\ [][\A n \in 1 .. Len(nodes) :
            /\ nodes[n].mergedParams # NilMap =>
                  /\ nodes'[n].mergedParams = nodes[n].mergedParams
                  /\ MapAt(heap', nodes[n].mergedParams) = MapAt(heap, nodes[n].mergedParams)
            /\ nodes'[n].mergedParams # nodes[n].mergedParams =>
                  \E g \in 1 .. Goroutines :
                     /\ gor[g].pc = "store" /\ gor'[g].pc = "unlock"
                     /\ gor[g].ctx = n
            /\ \A g \in 1 .. Goroutines :
                  (gor[g].pc = "store" /\ gor'[g].pc = "unlock" /\ Target(g) = n) =>
                      nodes[n].mergedParams = NilMap]_vars

\* the flattening of a child is cached while a second call, on its parent,
\* has computed and cached the parent's
C25_Witness ==
    \E g, h \in 1 .. Goroutines :
        /\ gor[g].pc = "done" /\ ~gor[g].hit
        /\ gor[h].pc = "done" /\ ~gor[h].hit
        /\ paramNodeFromContext(gor[g].ctx) # NoNode
        /\ nodes[gor[g].ctx].Parent = gor[h].ctx
        /\ paramNodeFromContext(gor[h].ctx) # NoNode
        /\ nodes[gor[g].ctx].mergedParams # NilMap
        /\ nodes[gor[h].ctx].mergedParams # NilMap
        /\ MapAt(heap, nodes[gor[g].ctx].mergedParams) = Flatten(nodes, heap, gor[g].ctx)

\* the goroutines that keep g from the lock it asks for
Blockers(g) ==
    IF gor[g].pc = "locking"
    THEN ({lockW[Target(g)]} \ {NoGoroutine}) \cup lockR[Target(g)]
    ELSE IF gor[g].pc = "rlock"
    THEN ({lockW[parentNode(gor[g].cur)]} \ {NoGoroutine}) \cup pendW[parentNode(gor[g].cur)]
    ELSE {}

\* the goroutines g waits for, directly or through others, in at most k steps
RECURSIVE WaitsFor(_, _)
WaitsFor(g, k) ==
    IF k = 0 THEN {}
    ELSE Blockers(g) \cup UNION { WaitsFor(h, k - 1) : h \in Blockers(g) }

\* the nodes whose lock g holds
HeldBy(g) == {n \in 1 .. Len(nodes) : lockW[n] = g \/ g \in lockR[n]}

\* C26: a call takes the write lock of its own node and read locks of
\* ancestors only, from the leaf towards the root, no goroutine ever waits
\* for itself through a cycle of waiting goroutines, and every call that was
\* made returns.
C26_EveryCallReturns ==
    /\ [](\A g \in 1 .. Goroutines :
            /\ g \notin WaitsFor(g, Goroutines)
            /\ \A n \in 1 .. Len(nodes) : lockW[n] = g => n = Target(g)
            /\ \A n \in 1 .. Len(nodes) :
                  g \in lockR[n] =>
                     /\ lockW[Target(g)] = g
                     /\ n \in Chain(nodes, Target(g)) \ {Target(g)}
                     /\ \A m \in Chain(nodes, Target(g)) :
                           n \in Chain(nodes, m) => m \in HeldBy(g)
            /\ gor[g].pc = "rlock" =>
                  \A n \in HeldBy(g) : parentNode(gor[g].cur) \in Chain(nodes, n) \ {n})
    /\ \A g \in 1 .. Goroutines : (gor[g].pc # "idle") ~> (gor[g].pc = "done")

\* a call on a child waits for the read lock of its parent, whose write
\* lock another call holds
C26_Witness ==
    \E g, h \in 1 .. Goroutines :
        /\ gor[g].pc = "rlock"
        /\ lockW[Target(g)] = g
        /\ parentNode(gor[g].cur) = Target(h)
        /\ lockW[Target(h)] = h
        /\ Blockers(g) = {h}

\* the goroutines about to read or write the field mergedParams of node n,
\* and those about to read or write the map that n's call builds and caches
SlotReaders(n) ==
    {g \in 1 .. Goroutines :
        \/ gor[g].pc = "check" /\ Target(g) = n
        \/ gor[g].pc = "read" /\ gor[g].cur = n}
SlotWriters(n) == {g \in 1 .. Goroutines : gor[g].pc = "store" /\ Target(g) = n}
MapReaders(n) ==
    {g \in SlotReaders(n) : nodes[n].mergedParams # NilMap} \cup SlotWriters(n)
MapWriters(n) ==
    {g \in 1 .. Goroutines : gor[g].pc \in {"read", "merge"} /\ Target(g) = n}

\* C27: mergedParams of a node is written only by the goroutine that holds
\* the node's write lock and read only by a goroutine that holds its read or
\* write lock, and no goroutine is about to write the field or the map while
\* another is about to read or write it.
C27_NoDataRace ==
    \A n \in 1 .. Len(nodes) :
        /\ \A g \in SlotWriters(n) \cup MapWriters(n) : lockW[n] = g
        /\ \A g \in SlotReaders(n) \cup MapReaders(n) : lockW[n] = g \/ g \in lockR[n]
        /\ \A g \in SlotWriters(n) \cup MapWriters(n) :
              \A h \in (1 .. Goroutines) \ {g} :
                 h \notin SlotReaders(n) \cup SlotWriters(n) \cup MapReaders(n) \cup MapWriters(n)
        /\ lockW[n] # NoGoroutine => lockR[n] = {}

\* one call is about to store the flattening of a node under its write lock
\* while a call on a child waits for the node's read lock
C27_Witness ==
    \E g, h \in 1 .. Goroutines :
        /\ gor[g].pc = "store"
        /\ lockW[Target(g)] = g
        /\ gor[h].pc = "rlock"
        /\ parentNode(gor[h].cur) = Target(g)
        /\ nodes[Target(g)].mergedParams = NilMap

\* C28: after any WithParams calls, with any Params calls between them, the
\* map Params of params.go returns for a context has the entries of the map
\* the eager mergeParams implementation keeps for it and of the map the
\* immutable-map implementation returns for it.
C28_LazyEqualsEager ==
    /\ retCtx # NoCall =>
          /\ MapAt(heap, ret) = eager.ret
          /\ MapAt(heap, ret) = eager.builtin
    /\ \A c \in Parents :
          /\ ParamsValue(nodes, heap, c) = ParamsFromContext(eager.merged, c)
          /\ ParamsValue(nodes, heap, c) = ParamsImmutable(eager.immutable, c)

\* Params of a grandchild context, called after the flattening of its parent
\* was cached, returns what the eager implementations hold
C28_Witness ==
    /\ Len(nodes) = 3
    /\ nodes[3].Parent = 2 /\ nodes[2].Parent = 1
    /\ nodes[2].mergedParams # NilMap
    /\ nodes[3].mergedParams # NilMap
    /\ retCtx = 3
    /\ MapAt(heap, ret) = [k \in {"k1", "k2"} |-> IF k = "k1" THEN "b" ELSE "a"]
    /\ eager.ret = MapAt(heap, ret)
    /\ eager.builtin = MapAt(heap, ret)
    /\ MapAt(heap, nodes[1].ChildParams) = [k \in {"k1", "k2"} |-> "a"]

\* C29: after a call of Eventf, of either version, every map its caller
\* holds, the explicit metadata map and the maps LogMetadata() returns, has
\* the entries it had before, and the maps of the Event are none of them.
C29_CallerMapsUntouched ==
    call.pc \in {"returned", "returnedOlder"} =>
        /\ \A a \in DOMAIN ArgMaps : a \in DOMAIN eheap /\ eheap[a] = ArgMaps[a]
        /\ event.Metadata \notin DOMAIN ArgMaps
        /\ event.RawMetadata \notin DOMAIN ArgMaps

\* Eventf(sev, ctx, "m%v", provider{k2}, map[string]string{"k1": "explicit"})
\* has returned an Event whose Metadata holds the entries of both maps
C29_Witness ==
    /\ call.pc = "returned"
    /\ call.msg = <<"m", "%", "v">>
    /\ call.params = <<ProvVal(<<"prov", 2>>), SMapVal(<<"smap", 1>>)>>
    /\ event.Metadata = MetaAddr
    /\ eheap[MetaAddr] = [k \in {"k1", "k2"} |-> IF k = "k1" THEN "explicit" ELSE "other"]
    /\ eheap[<<"smap", 1>>] = [k \in {"k1"} |-> "explicit"]
    /\ eheap[<<"prov", 2>>] = [k \in {"k2"} |-> "other"]

====
